---- MODULE Spec2Model ----
(***************************************************************************)
(* Model of the conference scraper: the reconciliation cycle                *)
(* (ConferenceScheduler.run_scraping_job), the completeness analysis        *)
(* (get_incomplete_conferences), the oracle client and validator            *)
(* (ConferenceScraper) and the two record stores (CSVProcessor,             *)
(* GoogleSheetsProcessor).                                                  *)
(*                                                                          *)
(* Strings are sequences of one-character strings, so that strip(), len()   *)
(* and the '/' membership test are computed as Python computes them.        *)
(***************************************************************************)
EXTENDS Integers, Sequences, FiniteSets, TLC

\* ------------------------------------------------------------------ bounds

\* Largest number of data rows of an initial table.
MaxRows == 2
\* Largest number of cycles started in one behaviour.
MaxCycles == 2
\* Largest number of data rows of a sheet when the Sheets backend is checked
\* on its own.
MaxSheetRows == 3
\* Largest work list handed to scrape_batch when it is checked on its own.
MaxItems == 4
\* Largest batch_size handed to scrape_batch when it is checked on its own.
MaxBatch == 3
MaxLimit == 2
MaxKeys == 2
MaxApplications == 2

\* ------------------------------------------------------------- constants

\* scheduler.py:76  scrape_batch(incomplete_conferences, batch_size=3)
JOB_BATCH_SIZE == 3
\* web_scraper.py:180  len(date_value) <= 5
MAX_DATE_LEN == 5
\* config.py:25
SCRAPING_INTERVAL_HOURS == 12
\* cloud_main.py:187  request.args.get('limit', 10, type=int)
PREVIEW_DEFAULT_LIMIT == 10

\* config.py:30-37
FIELDS_TO_SCRAPE ==
    << "Start Date", "End Date", "Location", "Speaker", "Attendees", "Status" >>

Fields == { FIELDS_TO_SCRAPE[n] : n \in 1..Len(FIELDS_TO_SCRAPE) }

\* ---------------------------------------------------------------- values

\* pandas' NaN (an empty cell of a CSV file once read) and JSON null / None.
NaN == << "NaN" >>
None == << "None" >>
\* The empty string.
Blank == << >>

isna(v) == v = NaN

IsSpace(c) == c = " "

RECURSIVE lstrip(_)
lstrip(s) ==
    IF s # << >> /\ IsSpace(Head(s)) THEN lstrip(Tail(s)) ELSE s

RECURSIVE rstrip(_)
rstrip(s) ==
    IF s # << >> /\ IsSpace(s[Len(s)]) THEN rstrip(SubSeq(s, 1, Len(s) - 1)) ELSE s

\* str.strip()
strip(s) == rstrip(lstrip(s))

\* '/' in value
Contains(s, c) == \E n \in 1..Len(s) : s[n] = c

\* The empty dict.
EmptyDict == [k \in {} |-> Blank]

\* Position of a field in FIELDS_TO_SCRAPE.
FieldPos(f) == CHOOSE n \in 1..Len(FIELDS_TO_SCRAPE) : FIELDS_TO_SCRAPE[n] = f

\* ----------------------------------------------------- oracle client

\* What one call of client.responses.create can produce: it raises, or it
\* returns a text.  A text is a payload, bare or wrapped in a code fence
\* (```json ... ``` or ``` ... ```).  A payload is the literal false in some
\* letter case, a JSON object, a JSON array, or text that is not JSON.
Response(kind, fence, payload, obj) ==
    [kind |-> kind, fence |-> fence, payload |-> payload, obj |-> obj]

\* The value False that search_conference_info returns, and a returned dict.
ScrapedFalse == [isdict |-> FALSE, data |-> EmptyDict]
ScrapedDict(d) == [isdict |-> TRUE, data |-> d]

\* str(value)
str(v) == IF v = None THEN << "N", "o", "n", "e" >> ELSE v

\* A filter that tests the value for emptiness without strip().
filtered_response_unstripped(obj) ==
    LET keep == { k \in DOMAIN obj : obj[k] # None /\ str(obj[k]) # Blank }
    IN  [k \in keep |-> obj[k]]

\* web_scraper.py:107-111: null values and blank strings are filtered out.
filtered_response(obj) ==
    LET keep == { k \in DOMAIN obj : obj[k] # None /\ strip(str(obj[k])) # Blank }
    IN  [k \in keep |-> obj[k]]

\* json.loads(response_text) followed by the filter: the JSON literal false
\* and a JSON array have no .items(), text that is not JSON does not parse;
\* all three end in an except clause that returns False.
parsed_result(payload, obj) ==
    IF payload = "object"
    THEN IF DOMAIN filtered_response(obj) # {}
         THEN ScrapedDict(filtered_response(obj))
         ELSE ScrapedFalse
    ELSE ScrapedFalse

\* A search_conference_info that lets the AttributeError of a JSON value
\* without .items() out to its caller.
search_conference_info_raises(resp) ==
    IF resp.kind = "text" /\ resp.payload = "array" /\ resp.fence # "plain"
    THEN [isdict |-> FALSE, data |-> EmptyDict, raised |-> TRUE]
    ELSE IF resp.kind = "exception"
    THEN ScrapedFalse
    ELSE IF resp.payload = "object" /\ resp.fence # "plain"
    THEN parsed_result(resp.payload, resp.obj)
    ELSE ScrapedFalse

search_conference_info(resp) ==
    IF resp.kind = "exception"
    THEN ScrapedFalse
    ELSE IF resp.fence = "none" /\ resp.payload \in {"false", "False", "FALSE"}
    THEN ScrapedFalse
    ELSE IF resp.fence = "none"
    THEN parsed_result(resp.payload, resp.obj)
    ELSE IF resp.fence = "json"
    THEN \* the fence is removed; False and FALSE are not JSON
         IF resp.payload \in {"False", "FALSE"}
         THEN ScrapedFalse
         ELSE parsed_result(resp.payload, resp.obj)
    ELSE \* a fence without the json tag is left in place: not JSON
         ScrapedFalse

\* if result['scraped_data'] and result['scraped_data'] is not False
Truthy(x) == x.isdict /\ DOMAIN x.data # {}

\* ---------------------------------------------------------- validator

DateFields == { "Start Date", "End Date" }
TextFields == { "Location", "Speaker", "Attendees", "Status" }

\* Mutant of text_ok: the emptiness test is made before strip().
text_ok_unstripped(v) == Len(str(v)) > 0

\* Mutant of validate_scraped_data: keys it does not know are copied.
validate_copies_unknown(data) ==
    LET keep == { f \in DOMAIN data :
                    \/ f \in { "Start Date", "End Date" }
                          /\ Contains(strip(str(data[f])), "/")
                          /\ Len(strip(str(data[f]))) <= MAX_DATE_LEN
                    \/ f \notin { "Start Date", "End Date" }
                          /\ Len(strip(str(data[f]))) > 0 }
    IN  [f \in keep |-> strip(str(data[f]))]

\* Mutant of date_ok: the length is that of the value before strip().
date_ok_unstripped(v) ==
    Contains(str(v), "/") /\ Len(str(v)) <= MAX_DATE_LEN

date_ok(v) ==
    Contains(strip(str(v)), "/") /\ Len(strip(str(v))) <= MAX_DATE_LEN

text_ok(v) == Len(strip(str(v))) > 0

validate_scraped_data(data) ==
    LET keep == { f \in DOMAIN data :
                    \/ f \in DateFields /\ date_ok(data[f])
                    \/ f \in TextFields /\ text_ok(data[f]) }
    IN  [f \in keep |-> strip(str(data[f]))]

\* --------------------------------------------------------- record store

\* A table is its header (which of the required columns it has; the
\* 'Conference Name' column is always there) and its data rows in sheet/file
\* order.  A data row is [name, cells], cells being a function on the header.
\* A DataFrame is a sequence of rows [index, name, cells]: index is the row's
\* label, which is what iterrows() yields and df.at[] takes.

\* pd.read_csv: an empty cell is read as NaN.
read_cell(text) == IF text = Blank THEN NaN ELSE text

\* DataFrame.to_csv: NaN is written as an empty cell.
to_csv_cell(v) == IF isna(v) THEN Blank ELSE v

\* csv_processor.py:85-98: every row of the file, labelled 0..n-1.
csv_load_2026_data(table) ==
    [n \in 1..Len(table.rows) |->
        [index |-> n - 1,
         name  |-> read_cell(table.rows[n].name),
         cells |-> [f \in table.columns |-> read_cell(table.rows[n].cells[f])]]]

\* csv_processor.py:76-83: the whole DataFrame replaces the file.
save_csv(df, table) ==
    [columns |-> table.columns,
     rows    |-> [n \in 1..Len(df) |->
                    [name  |-> to_csv_cell(df[n].name),
                     cells |-> [f \in DOMAIN df[n].cells |->
                                  to_csv_cell(df[n].cells[f])]]]]

\* sheets_processor.py:245-267: the rows of values[1:] labelled 0..n-1, then
\* the rows whose name is blank are filtered out; the labels stay.
sheets_load_2026_data(table) ==
    LET all == [n \in 1..Len(table.rows) |->
                  [index |-> n - 1,
                   name  |-> table.rows[n].name,
                   cells |-> table.rows[n].cells]]
    IN  SelectSeq(all, LAMBDA r : strip(r.name) # Blank)

\* Mutant of is_missing: the value is compared without strip().
is_missing_unstripped(v) == isna(v) \/ str(v) = Blank

\* pd.isna(row[field]) or str(row[field]).strip() == ""
is_missing(v) == isna(v) \/ strip(str(v)) = Blank

\* The missing_fields of one row: FIELDS_TO_SCRAPE order, existing columns only.
missing_fields(row) ==
    SelectSeq(FIELDS_TO_SCRAPE,
              LAMBDA f : f \in DOMAIN row.cells /\ is_missing(row.cells[f]))

conference_info(row) ==
    [index           |-> row.index,
     conference_name |-> row.name,
     missing_fields  |-> missing_fields(row)]

\* csv_processor.py:100-126 and sheets_processor.py:269-293 (the same code).
get_incomplete_conferences(df) ==
    LET infos == [n \in 1..Len(df) |-> conference_info(df[n])]
    IN  SelectSeq(infos, LAMBDA c : c.missing_fields # << >>)

\* df.at[index, field] = value, for the fields that are columns.
set_fields(df, index, field_updates) ==
    [n \in 1..Len(df) |->
        IF df[n].index = index
        THEN [df[n] EXCEPT !.cells =
                [f \in DOMAIN df[n].cells |->
                    IF f \in DOMAIN field_updates
                    THEN field_updates[f] ELSE df[n].cells[f]]]
        ELSE df[n]]

\* csv_processor.py:128-142
csv_update_conference_data(df, index, field_updates) ==
    set_fields(df, index, field_updates)

\* sheets_processor.py:313-327: df.iloc[index] takes the row at POSITION
\* index (IndexError when there is none); it is written to sheet row index+2,
\* which is data row index+1.
iloc_in_range(df, index) == index + 1 <= Len(df)

sync_row_to_sheets(df, index, table) ==
    [table EXCEPT !.rows =
        [n \in 1..(IF index + 1 > Len(table.rows) THEN index + 1 ELSE Len(table.rows)) |->
            IF n = index + 1
            THEN [name |-> df[index + 1].name, cells |-> df[index + 1].cells]
            ELSE IF n <= Len(table.rows)
                 THEN table.rows[n]
                 ELSE [name |-> Blank, cells |-> [f \in table.columns |-> Blank]]]]

\* ---------------------------------------------------------------- inputs

Str2(a, b) == << a, b >>

\* A complete row, an incomplete row (no Start Date, a whitespace-only
\* Location, no Status) and an empty row, whose name is blank too.
FullCells ==
    [f \in Fields |->
        CASE f = "Start Date" -> << "0", "5", "/", "1", "5" >>
          [] f = "End Date"   -> << "0", "5", "/", "1", "7" >>
          [] f = "Location"   -> Str2("N", "Y")
          [] f = "Speaker"    -> Str2("C", "Z")
          [] f = "Attendees"  -> Str2("5", "0")
          [] OTHER            -> Str2("O", "K")]

CompleteRow == [name |-> << "A" >>, cells |-> FullCells]

IncompleteRow ==
    [name |-> << "B" >>,
     cells |-> [FullCells EXCEPT !["Start Date"] = Blank,
                                 !["Location"] = << " " >>,
                                 !["Status"] = Blank]]

EmptyRow == [name |-> Blank, cells |-> [f \in Fields |-> Blank]]

RowShapes == { CompleteRow, IncompleteRow, EmptyRow }

\* The headers considered: all six required columns, or no Location column.
ColumnSets == { Fields, Fields \ {"Location"} }

Project(row, columns) ==
    [name |-> row.name, cells |-> [f \in columns |-> row.cells[f]]]

RowSeqs(n) == UNION { [1..m -> RowShapes] : m \in 0..n }

Tables ==
    { [columns |-> cols,
       rows    |-> [n \in 1..Len(rs) |-> Project(rs[n], cols)]] :
        cols \in ColumnSets, rs \in RowSeqs(MaxRows) }

\* The JSON objects the oracle answers with.
ObjMixed ==
    [k \in Fields \cup {"Venue"} |->
        CASE k = "Start Date" -> << " ", "0", "6", "/", "0", "1" >>
          [] k = "End Date"   -> << "0", "6", "/", "0", "3", "/", "2", "6" >>
          [] k = "Location"   -> << " ", "L", "A", " " >>
          [] k = "Speaker"    -> None
          [] k = "Attendees"  -> << " " >>
          [] k = "Status"     -> Str2("T", "B")
          [] OTHER            -> << "X" >>]

ObjBadDate == [k \in {"Start Date"} |-> << "J", "u", "n", "1" >>]

ObjNulls == [k \in {"Status", "Location"} |-> IF k = "Status" THEN None ELSE Blank]

\* An answer with a date the validator rejects, a date it accepts and a status.
ObjPartial ==
    [k \in {"Start Date", "End Date", "Status"} |->
        CASE k = "Start Date" -> << "J", "u", "n", "1" >>
          [] k = "End Date"   -> << "0", "6", "/", "0", "3" >>
          [] OTHER            -> Str2("T", "B")]

Objects == { ObjMixed, ObjBadDate, ObjNulls }

Responses ==
    { Response("exception", "none", "none", EmptyDict) }
    \cup { Response("text", fence, payload, EmptyDict) :
              fence \in {"none", "json", "plain"},
              payload \in {"false", "False", "FALSE", "array", "malformed"} }
    \cup { Response("text", fence, "object", obj) :
              fence \in {"none", "json", "plain"}, obj \in Objects }

\* The work lists handed to scrape_batch when it is checked on its own.
Item(n) ==
    [index |-> n - 1, conference_name |-> << "A" >>, missing_fields |-> << "Status" >>]

WorkList(n) == [k \in 1..n |-> Item(k)]

\* ----------------------------------------------------------------- state

Threads == { "background", "request" }

VARIABLES
    deployment,                  \* "cli" (main.py), "cloud" (cloud_main.py), "batch",
                                 \* "loop", "manual", "validate", "http", "refill",
                                 \* "oracle"
    USE_GOOGLE_SHEETS,           \* Config.USE_GOOGLE_SHEETS
    table,                       \* the record store: the CSV file or the 2026 sheet
    sheets_initialized,          \* ConferenceScheduler._sheets_initialized
    last_run,                    \* 0 is None
    total_conferences_processed,
    total_updates_made,
    now,                         \* the clock: the number of cycles started
    job,                         \* per thread: the locals of run_scraping_job
    spreadsheet,                 \* "present" or "absent": the Google spreadsheet
    schedule_jobs,               \* schedule.jobs, the registered recurring jobs
    entry,                       \* per thread: the frame that calls run_scraping_job
    ret,                         \* per thread: the last value returned to the caller
    validation,                  \* validate_scraped_data on its own: input and outputs
    scheduler                    \* cloud_main.scheduler: "None" or "ConferenceScheduler"

vars == << deployment, USE_GOOGLE_SHEETS, table, sheets_initialized, last_run,
           total_conferences_processed, total_updates_made, now, job,
           spreadsheet, schedule_jobs, entry, ret, validation, scheduler >>

\* What run_scraping_job never touches.
outside == << schedule_jobs, ret, validation, scheduler >>

stats == << last_run, total_conferences_processed, total_updates_made >>

IdleJob ==
    [pc            |-> "idle",
     outcome       |-> "none",
     stats0        |-> << 0, 0, 0 >>,
     table0        |-> [columns |-> {}, rows |-> << >>],
     connected     |-> FALSE,
     df_2026       |-> << >>,
     conferences   |-> << >>,
     batch_size    |-> JOB_BATCH_SIZE,
     i             |-> 0,
     pos           |-> 0,
     results       |-> << >>,
     r             |-> 1,
     updates_made  |-> 0,
     seen_total    |-> -1,
     log           |-> << >>,
     writes        |-> 0,
     dashboard     |-> 0]

\* No entry point is on the thread's stack.
NoEntry ==
    [op |-> "none", pc |-> "idle", where |-> "none", cycles |-> 0, jobs0 |-> << >>,
     start_time |-> 0]

NoReturn == [op |-> "none"]

NoValidation == [data |-> EmptyDict, out |-> << >>, row |-> EmptyDict]

TypeOK ==
    /\ deployment \in {"cli", "cloud", "batch", "loop", "manual", "validate", "http",
                       "refill", "oracle"}
    /\ spreadsheet \in {"present", "absent"}
    /\ scheduler \in {"None", "ConferenceScheduler"}
    /\ DOMAIN entry = Threads
    /\ DOMAIN ret = Threads
    /\ USE_GOOGLE_SHEETS \in BOOLEAN
    /\ sheets_initialized \in BOOLEAN
    /\ last_run \in 0..now
    /\ total_conferences_processed \in Nat
    /\ total_updates_made \in Nat
    /\ DOMAIN job = Threads

\* The state after ConferenceScheduler.__init__ (scheduler.py:14-30).
InitScheduler ==
    /\ USE_GOOGLE_SHEETS \in BOOLEAN
    /\ sheets_initialized = FALSE
    /\ last_run = 0
    /\ total_conferences_processed = 0
    /\ total_updates_made = 0
    /\ now = 0
    /\ job = [t \in Threads |-> IdleJob]
    /\ schedule_jobs = << >>
    /\ entry = [t \in Threads |-> NoEntry]
    /\ ret = [t \in Threads |-> NoReturn]
    /\ validation = NoValidation
    /\ scheduler = "ConferenceScheduler"

\* main.py: one thread, any table.
Init ==
    /\ deployment = "cli"
    /\ table \in Tables
    /\ spreadsheet = "present"
    /\ InitScheduler

\* --------------------------------------------------------------- actions

SetJob(t, j) == job' = [job EXCEPT ![t] = j]

\* An exception leaves run_scraping_job (scheduler.py:114-116).
Raised(j) == [j EXCEPT !.pc = "idle", !.outcome = "failed"]

\* A return statement before the statistics (scheduler.py:57, 64, 71).
Returned(j, why) == [j EXCEPT !.pc = "idle", !.outcome = why]

\* main.py runs everything on its one thread.  Where the entry points are
\* modelled, a cycle starts where one of them calls run_scraping_job.
MayStart(t) ==
    \/ deployment = "cloud"
    \/ deployment \in {"cli", "refill"} /\ t = "background"
    \/ deployment \in {"loop", "manual", "http"} /\ entry[t].pc = "call"

\* scheduler.py:32-41 with sheets_processor.py:85-102: on first use of the
\* Sheets backend the spreadsheet is opened, and created when it is not
\* there.
NeedsSheets == USE_GOOGLE_SHEETS /\ ~sheets_initialized

ensure_sheets_initialized(opened) ==
    IF NeedsSheets /\ opened
    THEN sheets_initialized' = TRUE /\ spreadsheet' = "present"
    ELSE UNCHANGED << sheets_initialized, spreadsheet >>

\* scheduler.py:43-52: run_scraping_job is entered, by the scheduler loop or
\* by run_single_scraping_job; _ensure_sheets_initialized opens or creates the
\* spreadsheet on first use, which can fail.
StartCycle(t) ==
    /\ job[t].pc = "idle"
    /\ MayStart(t)
    /\ now < MaxCycles
    /\ now' = now + 1
    /\ LET fresh == [IdleJob EXCEPT !.pc = "conn",
                                    !.outcome = "running",
                                    !.stats0 = stats,
                                    !.table0 = table]
       IN  IF NeedsSheets
           THEN \E opened \in BOOLEAN :
                    /\ ensure_sheets_initialized(opened)
                    /\ SetJob(t, IF opened THEN fresh ELSE Raised(fresh))
           ELSE ensure_sheets_initialized(TRUE) /\ SetJob(t, fresh)
    /\ entry' = [entry EXCEPT ![t] =
                    IF @.pc = "call"
                    THEN [@ EXCEPT !.pc = "running", !.cycles = @ + 1]
                    ELSE @]
    /\ UNCHANGED outside
    /\ UNCHANGED << deployment, USE_GOOGLE_SHEETS, table, last_run,
                    total_conferences_processed, total_updates_made >>

\* Mutant of TestApiConnection: the return after a failed test is missing.
TestApiConnectionFallsThrough(t) ==
    /\ job[t].pc = "conn"
    /\ \E successful \in BOOLEAN :
          SetJob(t, [job[t] EXCEPT !.pc = "load", !.connected = successful])
    /\ UNCHANGED << outside, spreadsheet, entry >>
    /\ UNCHANGED << deployment, USE_GOOGLE_SHEETS, table, sheets_initialized,
                    last_run, total_conferences_processed, total_updates_made, now >>

\* scheduler.py:54-57 with web_scraper.py:215-240: test_api_connection
\* answers True or False (an exception inside it is answered False).
TestApiConnection(t) ==
    /\ job[t].pc = "conn"
    /\ \E successful \in BOOLEAN :
          IF successful
          THEN SetJob(t, [job[t] EXCEPT !.pc = "load", !.connected = TRUE])
          ELSE SetJob(t, Returned(job[t], "conn_failed"))
    /\ UNCHANGED << outside, spreadsheet, entry >>
    /\ UNCHANGED << deployment, USE_GOOGLE_SHEETS, table, sheets_initialized,
                    last_run, total_conferences_processed, total_updates_made, now >>

load_2026_data(tbl) ==
    IF USE_GOOGLE_SHEETS THEN sheets_load_2026_data(tbl) ELSE csv_load_2026_data(tbl)

\* scheduler.py:59-73 once the table is loaded: return when it is empty,
\* analyse it, return when nothing is incomplete, else go on to the batch.
analysed(j, tbl) ==
    LET df == load_2026_data(tbl)
        incomplete == get_incomplete_conferences(df)
        k == [j EXCEPT !.df_2026 = df, !.conferences = incomplete]
    IN  IF df = << >>
        THEN Returned(k, "no_data")
        ELSE IF incomplete = << >>
        THEN Returned(k, "no_work")
        ELSE [k EXCEPT !.pc = "batch", !.batch_size = JOB_BATCH_SIZE]

\* Mutant of LoadAndAnalyze: a cycle without work stamps last_run.
LoadAndAnalyzeStampsLastRun(t) ==
    /\ job[t].pc = "load"
    /\ \E loaded \in BOOLEAN :
          IF ~loaded
          THEN SetJob(t, Raised(job[t])) /\ UNCHANGED last_run
          ELSE /\ SetJob(t, analysed(job[t], table))
               /\ last_run' = IF analysed(job[t], table).outcome = "no_work"
                              THEN now ELSE last_run
    /\ UNCHANGED << outside, spreadsheet, entry >>
    /\ UNCHANGED << deployment, USE_GOOGLE_SHEETS, table, sheets_initialized,
                    total_conferences_processed, total_updates_made, now >>

\* scheduler.py:59-73: load the table (which can fail) and analyse it.
LoadAndAnalyze(t) ==
    /\ job[t].pc = "load"
    /\ \E loaded \in BOOLEAN :
          IF ~loaded
          THEN SetJob(t, Raised(job[t]))
          ELSE SetJob(t, analysed(job[t], table))
    /\ UNCHANGED << outside, spreadsheet, entry >>
    /\ UNCHANGED << deployment, USE_GOOGLE_SHEETS, table, sheets_initialized,
                    last_run, total_conferences_processed, total_updates_made, now >>

\* Mutant of BatchLen: the slice is one conference short.
BatchLenShort(j) ==
    (IF j.i + j.batch_size <= Len(j.conferences)
     THEN j.batch_size ELSE Len(j.conferences) - j.i) - 1

\* conferences[i:i + batch_size]
BatchLen(j) ==
    IF j.i + j.batch_size <= Len(j.conferences)
    THEN j.batch_size ELSE Len(j.conferences) - j.i

Query(n) == [ev |-> "query", n |-> n]
Sleep(secs) == [ev |-> "sleep", n |-> secs]

\* web_scraper.py:140-151: the next conference of the batch is searched, the
\* result is appended and the thread sleeps 2 seconds.  search_conference_info
\* catches every exception itself, so the except clause of lines 153-160 is
\* never entered.
\* The answers of the oracle in the refill runs: an exception, false, or an
\* object whose dates the validator takes apart.
RefillResponses ==
    { Response("exception", "none", "none", EmptyDict),
      Response("text", "none", "false", EmptyDict) }
    \cup { Response("text", "none", "object", obj) : obj \in { ObjPartial, ObjBadDate } }

\* What the oracle may answer to one query.
Answers == IF deployment = "refill" THEN RefillResponses ELSE Responses

ScrapeItem(t) ==
    /\ job[t].pc = "batch"
    /\ job[t].i < Len(job[t].conferences)
    /\ job[t].pos < BatchLen(job[t])
    /\ \E resp \in Answers :
          LET j == job[t]
              n == j.i + j.pos + 1
              result == [conference_info |-> j.conferences[n],
                         scraped_data    |-> search_conference_info(resp)]
          IN  SetJob(t, [j EXCEPT !.results = Append(@, result),
                                  !.log = @ \o << Query(n), Sleep(2) >>,
                                  !.pos = @ + 1])
    /\ UNCHANGED << outside, spreadsheet, entry >>
    /\ UNCHANGED << deployment, USE_GOOGLE_SHEETS, table, sheets_initialized,
                    last_run, total_conferences_processed, total_updates_made, now >>

\* Mutant of EndBatch: the next batch starts one conference early.
EndBatchOverlaps(t) ==
    /\ job[t].pc = "batch"
    /\ job[t].i < Len(job[t].conferences)
    /\ job[t].pos = BatchLen(job[t])
    /\ LET j == job[t]
       IN  SetJob(t, [j EXCEPT !.log = IF j.i + j.batch_size < Len(j.conferences)
                                       THEN Append(@, Sleep(10)) ELSE @,
                               !.i = IF j.i + j.batch_size < Len(j.conferences)
                                     THEN @ + j.batch_size - 1 ELSE @ + j.batch_size,
                               !.pos = 0])
    /\ UNCHANGED << outside, spreadsheet, entry >>
    /\ UNCHANGED << deployment, USE_GOOGLE_SHEETS, table, sheets_initialized,
                    last_run, total_conferences_processed, total_updates_made, now >>

\* web_scraper.py:162-165 and the step of range(0, len, batch_size).
\* An end of batch that waits after the final batch as well.
EndBatchAlwaysWaits(t) ==
    /\ job[t].pc = "batch"
    /\ job[t].i < Len(job[t].conferences)
    /\ job[t].pos = BatchLen(job[t])
    /\ LET j == job[t]
       IN  SetJob(t, [j EXCEPT !.log = Append(@, Sleep(10)),
                               !.i = @ + j.batch_size,
                               !.pos = 0])
    /\ UNCHANGED << outside, spreadsheet, entry >>
    /\ UNCHANGED << deployment, USE_GOOGLE_SHEETS, table, sheets_initialized,
                    last_run, total_conferences_processed, total_updates_made, now >>

EndBatch(t) ==
    /\ job[t].pc = "batch"
    /\ job[t].i < Len(job[t].conferences)
    /\ job[t].pos = BatchLen(job[t])
    /\ LET j == job[t]
       IN  SetJob(t, [j EXCEPT !.log = IF j.i + j.batch_size < Len(j.conferences)
                                       THEN Append(@, Sleep(10)) ELSE @,
                               !.i = @ + j.batch_size,
                               !.pos = 0])
    /\ UNCHANGED << outside, spreadsheet, entry >>
    /\ UNCHANGED << deployment, USE_GOOGLE_SHEETS, table, sheets_initialized,
                    last_run, total_conferences_processed, total_updates_made, now >>

\* web_scraper.py:167 and scheduler.py:76-79: scrape_batch returns.
\* A loop over the batches whose end test misses a work list that is a
\* whole number of batches.
ReturnResultsPastEnd(t) ==
    /\ job[t].pc = "batch"
    /\ job[t].i > Len(job[t].conferences)
    /\ SetJob(t, [job[t] EXCEPT !.pc = "merge", !.r = 1, !.updates_made = 0])
    /\ UNCHANGED << outside, spreadsheet, entry >>
    /\ UNCHANGED << deployment, USE_GOOGLE_SHEETS, table, sheets_initialized,
                    last_run, total_conferences_processed, total_updates_made, now >>

ReturnResults(t) ==
    /\ job[t].pc = "batch"
    /\ job[t].i >= Len(job[t].conferences)
    /\ SetJob(t, [job[t] EXCEPT !.pc = "merge", !.r = 1, !.updates_made = 0])
    /\ UNCHANGED << outside, spreadsheet, entry >>
    /\ UNCHANGED << deployment, USE_GOOGLE_SHEETS, table, sheets_initialized,
                    last_run, total_conferences_processed, total_updates_made, now >>

\* The validated data of one result, the empty dict when the result is
\* False or nothing passes validation (scheduler.py:81-85).
validated_data(result) ==
    IF Truthy(result.scraped_data)
    THEN validate_scraped_data(result.scraped_data.data)
    ELSE EmptyDict

\* scheduler.py:80-93, one result of the loop.  On the CSV backend only the
\* DataFrame changes (csv_processor.py:128-142).  On the Sheets backend the
\* DataFrame changes and one row is written to the sheet at once
\* (sheets_processor.py:295-327), which can fail.
MergeResult(t) ==
    /\ job[t].pc = "merge"
    /\ job[t].r <= Len(job[t].results)
    /\ LET j == job[t]
           result == j.results[j.r]
           validated == validated_data(result)
           index == result.conference_info.index
           next == [j EXCEPT !.r = @ + 1]
       IN  IF DOMAIN validated = {}
           THEN SetJob(t, next) /\ UNCHANGED table
           ELSE IF ~USE_GOOGLE_SHEETS
           THEN /\ SetJob(t, [next EXCEPT
                       !.df_2026 = csv_update_conference_data(@, index, validated),
                       !.updates_made = @ + 1])
                /\ UNCHANGED table
           ELSE LET df == set_fields(j.df_2026, index,
                                     [f \in DOMAIN validated |-> str(validated[f])])
                IN  IF ~iloc_in_range(df, index)
                    THEN SetJob(t, Raised([j EXCEPT !.df_2026 = df])) /\ UNCHANGED table
                    ELSE \E synced \in BOOLEAN :
                            IF synced
                            THEN /\ table' = sync_row_to_sheets(df, index, table)
                                 /\ SetJob(t, [next EXCEPT !.df_2026 = df,
                                                           !.updates_made = @ + 1,
                                                           !.writes = @ + 1])
                            ELSE /\ UNCHANGED table
                                 /\ SetJob(t, Raised([j EXCEPT !.df_2026 = df]))
    /\ UNCHANGED << outside, spreadsheet, entry >>
    /\ UNCHANGED << deployment, USE_GOOGLE_SHEETS, sheets_initialized, last_run,
                    total_conferences_processed, total_updates_made, now >>

\* Mutant of Persist: the updates are counted before the file is saved.
PersistCountsBeforeSave(t) ==
    /\ job[t].pc = "merge"
    /\ job[t].r > Len(job[t].results)
    /\ LET j == job[t]
       IN  IF j.updates_made = 0
           THEN /\ SetJob(t, [j EXCEPT !.pc = "stats"])
                /\ UNCHANGED << table, total_updates_made >>
           ELSE IF USE_GOOGLE_SHEETS
           THEN /\ SetJob(t, [j EXCEPT !.pc = "stats", !.dashboard = @ + 4])
                /\ UNCHANGED << table, total_updates_made >>
           ELSE \E saved \in BOOLEAN :
                   IF saved
                   THEN /\ table' = save_csv(j.df_2026, table)
                        /\ SetJob(t, [j EXCEPT !.pc = "stats", !.writes = @ + 1])
                        /\ UNCHANGED total_updates_made
                   ELSE /\ UNCHANGED table
                        /\ total_updates_made' = total_updates_made + j.updates_made
                        /\ SetJob(t, Raised(j))
    /\ UNCHANGED << outside, spreadsheet, entry >>
    /\ UNCHANGED << deployment, USE_GOOGLE_SHEETS, sheets_initialized, last_run,
                    total_conferences_processed, now >>

\* Mutant of Persist: the CSV file is saved whether or not anything changed.
PersistAlways(t) ==
    /\ job[t].pc = "merge"
    /\ job[t].r > Len(job[t].results)
    /\ LET j == job[t]
       IN  IF USE_GOOGLE_SHEETS
           THEN /\ SetJob(t, [j EXCEPT !.pc = "stats",
                                       !.dashboard = IF j.updates_made > 0
                                                     THEN @ + 4 ELSE @])
                /\ UNCHANGED table
           ELSE /\ table' = save_csv(j.df_2026, table)
                /\ SetJob(t, [j EXCEPT !.pc = "stats", !.writes = @ + 1])
    /\ UNCHANGED << outside, spreadsheet, entry >>
    /\ UNCHANGED << deployment, USE_GOOGLE_SHEETS, sheets_initialized, last_run,
                    total_conferences_processed, total_updates_made, now >>

\* scheduler.py:95-102: with updates, the CSV backend saves the DataFrame
\* (which can fail) and the Sheets backend updates four dashboard cells
\* (failures are logged and swallowed, sheets_processor.py:329-348).
Persist(t) ==
    /\ job[t].pc = "merge"
    /\ job[t].r > Len(job[t].results)
    /\ LET j == job[t]
       IN  IF j.updates_made = 0
           THEN SetJob(t, [j EXCEPT !.pc = "stats"]) /\ UNCHANGED table
           ELSE IF USE_GOOGLE_SHEETS
           THEN /\ SetJob(t, [j EXCEPT !.pc = "stats", !.dashboard = @ + 4])
                /\ UNCHANGED table
           ELSE \E saved \in BOOLEAN :
                   IF saved
                   THEN /\ table' = save_csv(j.df_2026, table)
                        /\ SetJob(t, [j EXCEPT !.pc = "stats", !.writes = @ + 1])
                   ELSE /\ UNCHANGED table
                        /\ SetJob(t, Raised(j))
    /\ UNCHANGED << outside, spreadsheet, entry >>
    /\ UNCHANGED << deployment, USE_GOOGLE_SHEETS, sheets_initialized, last_run,
                    total_conferences_processed, total_updates_made, now >>

\* scheduler.py:105: `self.total_conferences_processed += len(...)` reads the
\* counter, calls len() and only then stores the sum; another thread of the
\* same process can run between the read and the store.
ReadStatistics(t) ==
    /\ job[t].pc = "stats"
    /\ job[t].seen_total < 0
    /\ SetJob(t, [job[t] EXCEPT !.seen_total = total_conferences_processed])
    /\ UNCHANGED << outside, spreadsheet, entry >>
    /\ UNCHANGED << deployment, USE_GOOGLE_SHEETS, table, sheets_initialized, last_run,
                    total_conferences_processed, total_updates_made, now >>

\* Mutant of UpdateStatistics: both counters grow by the work list's length.
UpdateStatisticsCountsAll(t) ==
    /\ job[t].pc = "stats"
    /\ job[t].seen_total >= 0
    /\ total_conferences_processed' = job[t].seen_total + Len(job[t].conferences)
    /\ total_updates_made' = total_updates_made + Len(job[t].conferences)
    /\ last_run' = now
    /\ SetJob(t, Returned(job[t], "done"))
    /\ UNCHANGED << outside, spreadsheet, entry >>
    /\ UNCHANGED << deployment, USE_GOOGLE_SHEETS, table, sheets_initialized, now >>

\* scheduler.py:104-107
UpdateStatistics(t) ==
    /\ job[t].pc = "stats"
    /\ job[t].seen_total >= 0
    /\ total_conferences_processed' = job[t].seen_total + Len(job[t].conferences)
    /\ total_updates_made' = total_updates_made + job[t].updates_made
    /\ last_run' = now
    /\ SetJob(t, Returned(job[t], "done"))
    /\ UNCHANGED << outside, spreadsheet, entry >>
    /\ UNCHANGED << deployment, USE_GOOGLE_SHEETS, table, sheets_initialized, now >>

Next ==
    \E t \in Threads :
        \/ StartCycle(t)
        \/ TestApiConnection(t)
        \/ LoadAndAnalyze(t)
        \/ ScrapeItem(t)
        \/ EndBatch(t)
        \/ ReturnResults(t)
        \/ MergeResult(t)
        \/ Persist(t)
        \/ ReadStatistics(t)
        \/ UpdateStatistics(t)

\* main.py: cycles run one after the other on one thread.
Spec == Init /\ [][Next]_vars

\* The Sheets backend on its own, with sheets of up to MaxSheetRows rows
\* that have every required column.
SheetTables ==
    { [columns |-> Fields, rows |-> rs] : rs \in RowSeqs(MaxSheetRows) }

InitSheets ==
    /\ deployment = "cli"
    /\ table \in SheetTables
    /\ spreadsheet = "present"
    /\ InitScheduler
    /\ USE_GOOGLE_SHEETS

SpecSheets == InitSheets /\ [][Next]_vars

\* cloud_main.py:249-269: run_scheduler runs on a daemon thread while Flask
\* (threaded=True) serves /trigger-scrape, each request on a thread of its
\* own; no lock is taken anywhere.  Two threads stand for them.
CloudTables ==
    { [columns |-> Fields, rows |-> << IncompleteRow, CompleteRow >>],
      [columns |-> Fields, rows |-> << IncompleteRow, IncompleteRow >>] }

InitCloud ==
    /\ deployment = "cloud"
    /\ table \in CloudTables
    /\ spreadsheet = "present"
    /\ InitScheduler

SpecCloud == InitCloud /\ [][Next]_vars

\* scrape_batch on its own (web_scraper.py:129-167): any work list of up to
\* MaxItems conferences, any batch_size from 1 to MaxBatch.
InitBatch ==
    /\ deployment = "batch"
    /\ table = [columns |-> Fields, rows |-> << >>]
    /\ USE_GOOGLE_SHEETS = FALSE
    /\ sheets_initialized = FALSE
    /\ last_run = 0
    /\ total_conferences_processed = 0
    /\ total_updates_made = 0
    /\ now = 0
    /\ spreadsheet = "present"
    /\ schedule_jobs = << >>
    /\ entry = [t \in Threads |-> NoEntry]
    /\ ret = [t \in Threads |-> NoReturn]
    /\ validation = NoValidation
    /\ scheduler = "ConferenceScheduler"
    /\ \E n \in 0..MaxItems, b \in 1..MaxBatch :
          job = [t \in Threads |->
                    IF t = "background"
                    THEN [IdleJob EXCEPT !.pc = "batch",
                                         !.outcome = "running",
                                         !.conferences = WorkList(n),
                                         !.batch_size = b]
                    ELSE IdleJob]

NextBatch ==
    \E t \in Threads :
        \/ ScrapeItem(t)
        \/ EndBatch(t)
        \/ ReturnResults(t)

SpecBatch == InitBatch /\ [][NextBatch]_vars

\* ------------------------------------------------------ the scheduler loop

SetEntry(t, e) == entry' = [entry EXCEPT ![t] = e]

\* schedule.every(hours).hours.do(self.run_scraping_job)
EveryHours(hours) == [unit |-> "hours", interval |-> hours, at |-> "any"]

\* schedule.every().day.at(time_str).do(self.run_scraping_job)
DailyAt(time_str) == [unit |-> "day", interval |-> 1, at |-> time_str]

DefaultJob == EveryHours(SCRAPING_INTERVAL_HOURS)

\* scheduler.py:118-129
schedule_jobs_default(jobs) == Append(jobs, DefaultJob)

\* The call of run_scraping_job made by the entry point of thread t is over.
CycleEnded(t) == entry[t].pc = "running" /\ job[t].pc = "idle"

\* scheduler.py:131-142: run_scheduler registers the recurring job and calls
\* run_scraping_job at once, outside any try.
\* A run_scheduler that goes to its polling loop without the first run.
RunSchedulerPollsFirst(t) ==
    /\ deployment = "loop"
    /\ t = "background"
    /\ entry[t].pc = "idle"
    /\ entry[t].op = "none"
    /\ schedule_jobs' = schedule_jobs_default(schedule_jobs)
    /\ SetEntry(t, [NoEntry EXCEPT !.op = "run_scheduler", !.pc = "poll",
                                   !.where = "initial", !.jobs0 = schedule_jobs])
    /\ UNCHANGED << ret, validation, scheduler, spreadsheet, job >>
    /\ UNCHANGED << deployment, USE_GOOGLE_SHEETS, table, sheets_initialized,
                    last_run, total_conferences_processed, total_updates_made, now >>

RunScheduler(t) ==
    /\ deployment = "loop"
    /\ t = "background"
    /\ entry[t].pc = "idle"
    /\ entry[t].op = "none"
    /\ schedule_jobs' = schedule_jobs_default(schedule_jobs)
    /\ SetEntry(t, [NoEntry EXCEPT !.op = "run_scheduler", !.pc = "call",
                                   !.where = "initial", !.jobs0 = schedule_jobs])
    /\ UNCHANGED << ret, validation, scheduler, spreadsheet, job >>
    /\ UNCHANGED << deployment, USE_GOOGLE_SHEETS, table, sheets_initialized,
                    last_run, total_conferences_processed, total_updates_made, now >>

\* scheduler.py:142-145: the initial run returns and the loop is entered, or
\* it raises and the exception leaves run_scheduler (cloud_main.py:90-96 and
\* main.py:86-88 log it; the thread or the process ends).
InitialRunEnds(t) ==
    /\ entry[t].op = "run_scheduler"
    /\ entry[t].where = "initial"
    /\ CycleEnded(t)
    /\ SetEntry(t, [entry[t] EXCEPT !.pc = IF job[t].outcome = "failed"
                                          THEN "crashed" ELSE "poll"])
    /\ UNCHANGED << outside, spreadsheet, job >>
    /\ UNCHANGED << deployment, USE_GOOGLE_SHEETS, table, sheets_initialized,
                    last_run, total_conferences_processed, total_updates_made, now >>

\* scheduler.py:147: schedule.run_pending() runs the job when one is
\* registered and due.
RunPending(t) ==
    /\ entry[t].op = "run_scheduler"
    /\ entry[t].pc = "poll"
    /\ \E due \in BOOLEAN :
          SetEntry(t, [entry[t] EXCEPT
                          !.where = "tick",
                          !.pc = IF due /\ schedule_jobs # << >> /\ now < MaxCycles
                                 THEN "call" ELSE "sleep"])
    /\ UNCHANGED << outside, spreadsheet, job >>
    /\ UNCHANGED << deployment, USE_GOOGLE_SHEETS, table, sheets_initialized,
                    last_run, total_conferences_processed, total_updates_made, now >>

\* Mutant of TickEnds: an exception of the job leaves the loop.
TickEndsLeavesLoop(t) ==
    /\ entry[t].op = "run_scheduler"
    /\ entry[t].where = "tick"
    /\ CycleEnded(t)
    /\ SetEntry(t, [entry[t] EXCEPT !.pc = IF job[t].outcome = "failed"
                                          THEN "crashed" ELSE "sleep"])
    /\ UNCHANGED << outside, spreadsheet, job >>
    /\ UNCHANGED << deployment, USE_GOOGLE_SHEETS, table, sheets_initialized,
                    last_run, total_conferences_processed, total_updates_made, now >>

\* scheduler.py:146-155: the job run by run_pending returns, and the loop
\* goes on to time.sleep(60); or it raises, the exception is caught and
\* logged, and the loop goes on to time.sleep(300).
TickEnds(t) ==
    /\ entry[t].op = "run_scheduler"
    /\ entry[t].where = "tick"
    /\ CycleEnded(t)
    /\ SetEntry(t, [entry[t] EXCEPT !.pc = IF job[t].outcome = "failed"
                                          THEN "recover" ELSE "sleep"])
    /\ UNCHANGED << outside, spreadsheet, job >>
    /\ UNCHANGED << deployment, USE_GOOGLE_SHEETS, table, sheets_initialized,
                    last_run, total_conferences_processed, total_updates_made, now >>

\* scheduler.py:148 and 155: time.sleep(60), or time.sleep(300) after an
\* exception, is over and the while loop comes round.
SleepEnds(t) ==
    /\ entry[t].op = "run_scheduler"
    /\ entry[t].pc \in {"sleep", "recover"}
    /\ SetEntry(t, [entry[t] EXCEPT !.pc = "poll"])
    /\ UNCHANGED << outside, spreadsheet, job >>
    /\ UNCHANGED << deployment, USE_GOOGLE_SHEETS, table, sheets_initialized,
                    last_run, total_conferences_processed, total_updates_made, now >>

\* scheduler.py:150-152: Ctrl-C while the loop polls or sleeps ends it.
KeyboardInterrupt(t) ==
    /\ entry[t].op = "run_scheduler"
    /\ entry[t].pc \in {"poll", "sleep", "recover"}
    /\ SetEntry(t, [entry[t] EXCEPT !.pc = "interrupted"])
    /\ UNCHANGED << outside, spreadsheet, job >>
    /\ UNCHANGED << deployment, USE_GOOGLE_SHEETS, table, sheets_initialized,
                    last_run, total_conferences_processed, total_updates_made, now >>

\* The steps of run_scraping_job.
Cycle(t) ==
    \/ StartCycle(t)
    \/ TestApiConnection(t)
    \/ LoadAndAnalyze(t)
    \/ ScrapeItem(t)
    \/ EndBatch(t)
    \/ ReturnResults(t)
    \/ MergeResult(t)
    \/ Persist(t)
    \/ ReadStatistics(t)
    \/ UpdateStatistics(t)

\* The loop, until it is interrupted.
LoopStep(t) ==
    \/ RunScheduler(t)
    \/ InitialRunEnds(t)
    \/ RunPending(t)
    \/ TickEnds(t)
    \/ SleepEnds(t)
    \/ Cycle(t)

NextLoop ==
    \E t \in Threads :
        \/ LoopStep(t)
        \/ KeyboardInterrupt(t)

\* The tables of the scheduler's own checks: no row, or rows with work.
ServiceTables == CloudTables \cup { [columns |-> Fields, rows |-> << >>] }

\* A spreadsheet that does not exist yet has no row.
StoreStates ==
    /\ spreadsheet \in {"present", "absent"}
    /\ spreadsheet = "absent" => USE_GOOGLE_SHEETS /\ table.rows = << >>

\* `main.py schedule`: run_scheduler on the process's one thread.
InitLoop ==
    /\ deployment = "loop"
    /\ table \in ServiceTables
    /\ InitScheduler
    /\ StoreStates

SpecLoop == InitLoop /\ [][NextLoop]_vars

\* The thread is never suspended for ever: sleeps end, calls return.
SpecLoopFair == SpecLoop /\ \A t \in Threads : WF_vars(LoopStep(t))

\* ------------------------------------------- the on-demand operations

\* What an operation can change besides the schedule: the statistics and the
\* store.
Snapshot == [stats |-> stats, table |-> table, spreadsheet |-> spreadsheet]

SetRet(t, r) == ret' = [ret EXCEPT ![t] = r]

\* A command of main.py or a request of cloud_main.py, one at a time.
MayCall(t) ==
    /\ deployment = "manual"
    /\ t = "request"
    /\ entry[t].pc = "idle"

\* scheduler.py:177-186: run_single_scraping_job calls run_scraping_job.
RunSingleScrapingJob(t) ==
    /\ MayCall(t)
    /\ now < MaxCycles
    /\ SetEntry(t, [NoEntry EXCEPT !.op = "run_single_scraping_job", !.pc = "call",
                                   !.where = "manual", !.jobs0 = schedule_jobs,
                                   !.start_time = now])
    /\ UNCHANGED << outside, spreadsheet, job >>
    /\ UNCHANGED << deployment, USE_GOOGLE_SHEETS, table, sheets_initialized,
                    last_run, total_conferences_processed, total_updates_made, now >>

\* scheduler.py:190-203: the dict returned when run_scraping_job returned,
\* and the dict returned when it raised.
single_job_result(raised, start_time) ==
    IF ~raised
    THEN [success          |-> TRUE,
          duration_seconds |-> now - start_time,
          timestamp        |-> start_time,
          message          |-> "Scraping job completed successfully"]
    ELSE [success   |-> FALSE,
          error     |-> "str(e)",
          timestamp |-> start_time,
          message   |-> "Scraping job failed"]

\* Mutant of RunSingleReturns: a cycle that raised is run once more.
RunSingleReturnsRetries(t) ==
    /\ entry[t].op = "run_single_scraping_job"
    /\ CycleEnded(t)
    /\ IF job[t].outcome = "failed" /\ entry[t].cycles < 2 /\ now < MaxCycles
       THEN SetEntry(t, [entry[t] EXCEPT !.pc = "call"]) /\ UNCHANGED ret
       ELSE /\ SetEntry(t, NoEntry)
            /\ SetRet(t, [op     |-> "run_single_scraping_job",
                          value  |-> single_job_result(job[t].outcome = "failed",
                                                     entry[t].start_time),
                          cycles |-> entry[t].cycles,
                          jobs0  |-> entry[t].jobs0,
                          jobs   |-> schedule_jobs])
    /\ UNCHANGED << schedule_jobs, validation, scheduler, spreadsheet, job >>
    /\ UNCHANGED << deployment, USE_GOOGLE_SHEETS, table, sheets_initialized,
                    last_run, total_conferences_processed, total_updates_made, now >>

\* scheduler.py:186-203: run_scraping_job returned or raised, and
\* run_single_scraping_job returns its dict.
RunSingleReturns(t) ==
    /\ entry[t].op = "run_single_scraping_job"
    /\ CycleEnded(t)
    /\ SetEntry(t, NoEntry)
    /\ SetRet(t, [op     |-> "run_single_scraping_job",
                  value  |-> single_job_result(job[t].outcome = "failed",
                                                     entry[t].start_time),
                  cycles |-> entry[t].cycles,
                  jobs0  |-> entry[t].jobs0,
                  jobs   |-> schedule_jobs])
    /\ UNCHANGED << schedule_jobs, validation, scheduler, spreadsheet, job >>
    /\ UNCHANGED << deployment, USE_GOOGLE_SHEETS, table, sheets_initialized,
                    last_run, total_conferences_processed, total_updates_made, now >>

\* incomplete_conferences[:limit]
slice_to(seq, limit) ==
    LET n == IF limit >= 0
             THEN (IF limit < Len(seq) THEN limit ELSE Len(seq))
             ELSE (IF Len(seq) + limit > 0 THEN Len(seq) + limit ELSE 0)
    IN  SubSeq(seq, 1, n)

Limits == -1..MaxLimit

\* scheduler.py:259-263 and 242-246: the table is loaded and analysed; an
\* empty table has no work item.
incomplete_now(tbl) ==
    IF load_2026_data(tbl) = << >>
    THEN << >>
    ELSE get_incomplete_conferences(load_2026_data(tbl))

\* scheduler.py:253-270: preview_next_scraping_batch(limit).  The spreadsheet
\* is opened or created on first use; an exception of that or of the load is
\* logged and [] is returned.  The scraper is not called.
PreviewNextScrapingBatch(t, limit) ==
    /\ MayCall(t)
    /\ UNCHANGED << schedule_jobs, validation, scheduler, entry, job >>
    /\ UNCHANGED << deployment, USE_GOOGLE_SHEETS, table, last_run,
                    total_conferences_processed, total_updates_made, now >>
    /\ \E opened, loaded \in BOOLEAN :
          /\ ensure_sheets_initialized(opened)
          /\ LET ok == (NeedsSheets => opened) /\ loaded
             IN  SetRet(t, [op      |-> "preview_next_scraping_batch",
                            limit   |-> limit,
                            loaded  |-> ok,
                            value   |-> IF ok THEN slice_to(incomplete_now(table), limit)
                                              ELSE << >>,
                            queries |-> << >>,
                            before  |-> Snapshot,
                            after   |-> Snapshot'])

\* scheduler.py:236-251: get_incomplete_conferences_count, which returns 0
\* after an exception.
GetIncompleteConferencesCount(t) ==
    /\ MayCall(t)
    /\ UNCHANGED << schedule_jobs, validation, scheduler, entry, job >>
    /\ UNCHANGED << deployment, USE_GOOGLE_SHEETS, table, last_run,
                    total_conferences_processed, total_updates_made, now >>
    /\ \E opened, loaded \in BOOLEAN :
          /\ ensure_sheets_initialized(opened)
          /\ LET ok == (NeedsSheets => opened) /\ loaded
             IN  SetRet(t, [op      |-> "get_incomplete_conferences_count",
                            loaded  |-> ok,
                            value   |-> IF ok THEN Len(incomplete_now(table)) ELSE 0,
                            queries |-> << >>,
                            before  |-> Snapshot,
                            after   |-> Snapshot'])

\* scheduler.py:164-175 (next_run and interval_hours are left out).
GetStatus(t) ==
    /\ MayCall(t)
    /\ UNCHANGED << schedule_jobs, validation, scheduler, entry, job, spreadsheet >>
    /\ UNCHANGED << deployment, USE_GOOGLE_SHEETS, table, sheets_initialized,
                    last_run, total_conferences_processed, total_updates_made, now >>
    /\ SetRet(t, [op      |-> "get_status",
                  value   |-> [last_run |-> last_run,
                               total_conferences_processed |-> total_conferences_processed,
                               total_updates_made |-> total_updates_made,
                               scheduled_jobs |-> Len(schedule_jobs)],
                  queries |-> << >>,
                  before  |-> Snapshot,
                  after   |-> Snapshot'])

\* scheduler.py:212-234: the jobs registered by set_custom_schedule once the
\* schedule is cleared; hours = 0 is None.
\* An optional argument: left out (None) or given with a value.
NotGiven(empty) == [given |-> FALSE, value |-> empty]
Given(value) == [given |-> TRUE, value |-> value]

\* Python's truth value of the argument: None, 0 and [] are false.
truthy(arg, empty) == arg.given /\ arg.value # empty

\* A set_custom_schedule that registers on top of the jobs it finds.
custom_schedule_keeps(jobs, hours, specific_times) ==
    LET with_hours == IF truthy(hours, 0)
                      THEN Append(jobs, EveryHours(hours.value)) ELSE jobs
        times == IF truthy(specific_times, << >>) THEN specific_times.value ELSE << >>
        with_times == with_hours \o [k \in DOMAIN times |-> DailyAt(times[k])]
    IN  IF ~truthy(hours, 0) /\ ~truthy(specific_times, << >>)
        THEN schedule_jobs_default(with_times)
        ELSE with_times

\* scheduler.py:220-234: schedule.clear(), then the jobs are appended to the
\* job list in the order of the statements.
custom_schedule(jobs, hours, specific_times) ==
    LET cleared == << >>
        with_hours == IF truthy(hours, 0)
                      THEN Append(cleared, EveryHours(hours.value)) ELSE cleared
        times == IF truthy(specific_times, << >>) THEN specific_times.value ELSE << >>
        with_times == with_hours \o [k \in DOMAIN times |-> DailyAt(times[k])]
    IN  IF ~truthy(hours, 0) /\ ~truthy(specific_times, << >>)
        THEN schedule_jobs_default(with_times)
        ELSE with_times

Hours == { NotGiven(0), Given(0), Given(6) }

SpecificTimes == { NotGiven(<< >>), Given(<< >>), Given(<< "09:00", "21:00" >>) }

SetCustomSchedule(t, hours, specific_times) ==
    /\ MayCall(t)
    /\ schedule_jobs' = custom_schedule(schedule_jobs, hours, specific_times)
    /\ UNCHANGED << validation, scheduler, entry, job, spreadsheet >>
    /\ UNCHANGED << deployment, USE_GOOGLE_SHEETS, table, sheets_initialized,
                    last_run, total_conferences_processed, total_updates_made, now >>
    /\ SetRet(t, [op      |-> "set_custom_schedule",
                  hours   |-> hours,
                  specific_times |-> specific_times,
                  jobs0   |-> schedule_jobs,
                  jobs    |-> schedule_jobs',
                  queries |-> << >>,
                  before  |-> Snapshot,
                  after   |-> Snapshot'])

\* scheduler.py:205-210
StopScheduler(t) ==
    /\ MayCall(t)
    /\ schedule_jobs' = << >>
    /\ UNCHANGED << validation, scheduler, entry, job, spreadsheet >>
    /\ UNCHANGED << deployment, USE_GOOGLE_SHEETS, table, sheets_initialized,
                    last_run, total_conferences_processed, total_updates_made, now >>
    /\ SetRet(t, [op      |-> "stop_scheduler",
                  queries |-> << >>,
                  before  |-> Snapshot,
                  after   |-> Snapshot'])

NextManual ==
    \E t \in Threads :
        \/ RunSingleScrapingJob(t)
        \/ Cycle(t)
        \/ RunSingleReturns(t)
        \/ \E limit \in Limits : PreviewNextScrapingBatch(t, limit)
        \/ GetIncompleteConferencesCount(t)
        \/ GetStatus(t)
        \/ \E hours \in Hours, specific_times \in SpecificTimes :
              SetCustomSchedule(t, hours, specific_times)
        \/ StopScheduler(t)

\* The commands of main.py and the requests of cloud_main.py, one at a time.
InitManual ==
    /\ deployment = "manual"
    /\ table \in ServiceTables
    /\ InitScheduler
    /\ StoreStates

SpecManual == InitManual /\ [][NextManual]_vars

\* ----------------------------------------- validate_scraped_data alone

\* The keys and the values of the maps handed to validate_scraped_data: the
\* six fields and a key it does not know; null, empty, blank, a date with a
\* leading space, a date that is too long, a date without a slash, a text
\* with spaces around it.
ScrapedKeys == Fields \cup { "Venue" }

ScrapedValues ==
    { None, Blank, << " " >>,
      << " ", "0", "6", "/", "0", "1" >>,
      << "0", "6", "/", "0", "3", "/", "2", "6" >>,
      << "J", "u", "n", "1" >>,
      << " ", "L", "A", " " >> }

ScrapedMaps ==
    UNION { [K -> ScrapedValues] :
              K \in { S \in SUBSET ScrapedKeys : Cardinality(S) <= MaxKeys } }

\* web_scraper.py:169-207 applied to the input, then to its own output.
ValidateScrapedData ==
    /\ deployment = "validate"
    /\ Len(validation.out) < MaxApplications
    /\ validation' =
          [validation EXCEPT !.out =
              Append(@, validate_scraped_data(IF @ = << >>
                                              THEN validation.data
                                              ELSE @[Len(@)]))]
    /\ UNCHANGED << schedule_jobs, ret, entry, job, spreadsheet, scheduler >>
    /\ UNCHANGED << deployment, USE_GOOGLE_SHEETS, table, sheets_initialized,
                    last_run, total_conferences_processed, total_updates_made, now >>

\* scheduler.py:85-91: a non-empty validated map is merged into the row of
\* its conference.
MergeValidated ==
    /\ deployment = "validate"
    /\ Len(validation.out) >= 1
    /\ DOMAIN validation.out[1] # {}
    /\ validation.row = EmptyDict
    /\ LET df == << [index |-> 0, name |-> IncompleteRow.name,
                     cells |-> IncompleteRow.cells] >>
       IN  validation' =
              [validation EXCEPT !.row =
                  csv_update_conference_data(df, 0, validation.out[1])[1].cells]
    /\ UNCHANGED << schedule_jobs, ret, entry, job, spreadsheet, scheduler >>
    /\ UNCHANGED << deployment, USE_GOOGLE_SHEETS, table, sheets_initialized,
                    last_run, total_conferences_processed, total_updates_made, now >>

NextValidate == ValidateScrapedData \/ MergeValidated

InitValidate ==
    /\ deployment = "validate"
    /\ table = [columns |-> Fields, rows |-> << IncompleteRow >>]
    /\ spreadsheet = "present"
    /\ USE_GOOGLE_SHEETS = FALSE
    /\ sheets_initialized = FALSE
    /\ last_run = 0
    /\ total_conferences_processed = 0
    /\ total_updates_made = 0
    /\ now = 0
    /\ job = [t \in Threads |-> IdleJob]
    /\ schedule_jobs = << >>
    /\ entry = [t \in Threads |-> NoEntry]
    /\ ret = [t \in Threads |-> NoReturn]
    /\ scheduler = "ConferenceScheduler"
    /\ \E data \in ScrapedMaps : validation = [NoValidation EXCEPT !.data = data]

SpecValidate == InitValidate /\ [][NextValidate]_vars

\* ------------------------------------------- search_conference_info alone

Fences == { "none", "json", "plain" }

FalseLiterals == { "false", "False", "FALSE" }

\* The texts the oracle may return, and the call that raises instead.
OracleResponses ==
    { Response("exception", "none", "none", EmptyDict) }
    \cup { Response("text", fence, payload, EmptyDict) :
              fence \in Fences, payload \in FalseLiterals \cup { "array", "malformed" } }
    \cup { Response("text", fence, "object", obj) :
              fence \in Fences, obj \in ScrapedMaps }

\* web_scraper.py:66-127: one call of search_conference_info, which keeps
\* nothing from one call to the next.
SearchConferenceInfo(t, resp) ==
    /\ deployment = "oracle"
    /\ t = "request"
    /\ ret[t] = NoReturn
    /\ SetRet(t, [op    |-> "search_conference_info",
                  resp  |-> resp,
                  value |-> search_conference_info(resp)])
    /\ UNCHANGED << schedule_jobs, validation, scheduler, entry, job, spreadsheet >>
    /\ UNCHANGED << deployment, USE_GOOGLE_SHEETS, table, sheets_initialized,
                    last_run, total_conferences_processed, total_updates_made, now >>

NextOracle ==
    \E t \in Threads, resp \in OracleResponses : SearchConferenceInfo(t, resp)

InitOracle ==
    /\ deployment = "oracle"
    /\ table = [columns |-> Fields, rows |-> << IncompleteRow >>]
    /\ spreadsheet = "present"
    /\ USE_GOOGLE_SHEETS = FALSE
    /\ sheets_initialized = FALSE
    /\ last_run = 0
    /\ total_conferences_processed = 0
    /\ total_updates_made = 0
    /\ now = 0
    /\ job = [t \in Threads |-> IdleJob]
    /\ schedule_jobs = << >>
    /\ entry = [t \in Threads |-> NoEntry]
    /\ ret = [t \in Threads |-> NoReturn]
    /\ validation = NoValidation
    /\ scheduler = "ConferenceScheduler"

SpecOracle == InitOracle /\ [][NextOracle]_vars

\* ------------------------------------------------------ refilling rows

\* Tables of the refill runs: the incomplete record B, alone or before the
\* complete record A, with or without an empty row in front.
RefillTables ==
    { [columns |-> Fields, rows |-> rs] :
        rs \in { << IncompleteRow >>, << IncompleteRow, CompleteRow >>,
                 << EmptyRow, IncompleteRow >>,
                 << EmptyRow, IncompleteRow, CompleteRow >> } }

\* One scheduler that runs its cycle up to MaxCycles times, one cycle after
\* the other, on either backend.
InitRefill ==
    /\ deployment = "refill"
    /\ table \in RefillTables
    /\ spreadsheet = "present"
    /\ InitScheduler

SpecRefill == InitRefill /\ [][Next]_vars

\* ------------------------------------------------- cycles of many batches

\* Tables whose work list is shorter than, as long as, and longer than one
\* batch of the cycle, and a table without work.
LongTables ==
    { [columns |-> Fields, rows |-> rs] :
        rs \in { << CompleteRow >>, << IncompleteRow >>,
                 << IncompleteRow, IncompleteRow, IncompleteRow >>,
                 << IncompleteRow, IncompleteRow, IncompleteRow, IncompleteRow >> } }

\* A scheduler whose earlier cycles ended without a statistics update and
\* that has one more cycle to run.
InitLong ==
    /\ deployment = "refill"
    /\ table \in LongTables
    /\ spreadsheet = "present"
    /\ USE_GOOGLE_SHEETS \in BOOLEAN
    /\ sheets_initialized = FALSE
    /\ last_run = 0
    /\ total_conferences_processed = 0
    /\ total_updates_made = 0
    /\ now = MaxCycles - 1
    /\ job = [t \in Threads |-> IdleJob]
    /\ schedule_jobs = << >>
    /\ entry = [t \in Threads |-> NoEntry]
    /\ ret = [t \in Threads |-> NoReturn]
    /\ validation = NoValidation
    /\ scheduler = "ConferenceScheduler"

SpecLong == InitLong /\ [][Next]_vars

\* The thread that runs a cycle is never suspended for ever: the oracle
\* answers or its client raises, sleeps end, the store answers or raises.
SpecLongFair == SpecLong /\ \A t \in Threads : WF_vars(Cycle(t))

\* ------------------------------------------------- the HTTP endpoints

\* A request handled by Flask on the thread "request".
MayHandle(t) ==
    /\ deployment = "http"
    /\ t = "request"
    /\ entry[t].pc = "idle"

DigitChars == << "0", "1", "2", "3", "4", "5", "6", "7", "8", "9" >>

IsDigit(c) == \E n \in DOMAIN DigitChars : DigitChars[n] = c

DigitValue(c) == (CHOOSE n \in DOMAIN DigitChars : DigitChars[n] = c) - 1

RECURSIVE digits_value(_)
digits_value(s) ==
    IF s = << >> THEN 0
    ELSE 10 * digits_value(SubSeq(s, 1, Len(s) - 1)) + DigitValue(s[Len(s)])

\* int(text): spaces around the number are allowed, then an optional sign and
\* decimal digits; anything else is a ValueError.
int_of(text) ==
    LET s == strip(text)
        signed == s # << >> /\ s[1] \in { "-", "+" }
        digits == IF signed THEN Tail(s) ELSE s
        ok == digits # << >> /\ \A n \in DOMAIN digits : IsDigit(digits[n])
    IN  [ok    |-> ok,
         value |-> IF ~ok THEN 0
                   ELSE IF signed /\ s[1] = "-" THEN 0 - digits_value(digits)
                   ELSE digits_value(digits)]

\* A query parameter that is not sent, or its text.
NotSent == [sent |-> FALSE, text |-> << >>]
Sent(text) == [sent |-> TRUE, text |-> text]

\* A lookup that falls back to the default only when the parameter is not sent.
args_get_int_unchecked(raw, default) ==
    IF raw.sent THEN int_of(raw.text).value ELSE default

\* request.args.get(key, default, type=int): the default when the parameter
\* is not sent or int() raises ValueError.
args_get_int(raw, default) ==
    IF raw.sent /\ int_of(raw.text).ok THEN int_of(raw.text).value ELSE default

RawLimits ==
    { NotSent, Sent(<< >>), Sent(<< "a", "b", "c" >>), Sent(<< "1", ".", "5" >>),
      Sent(<< "1" >>), Sent(<< " ", "2" >>), Sent(<< "-", "1" >>), Sent(<< "0" >>) }

\* cloud_main.py:39-58: initialize_scraper builds the ConferenceScheduler;
\* until then the module's scheduler is None.
InitializeScraper ==
    /\ deployment = "http"
    /\ scheduler = "None"
    /\ scheduler' = "ConferenceScheduler"
    /\ UNCHANGED << schedule_jobs, ret, validation, entry, job, spreadsheet >>
    /\ UNCHANGED << deployment, USE_GOOGLE_SHEETS, table, sheets_initialized,
                    last_run, total_conferences_processed, total_updates_made, now >>

\* cloud_main.py:107-151: GET /status.
HandleStatus(t) ==
    /\ MayHandle(t)
    /\ UNCHANGED << schedule_jobs, validation, scheduler, entry, job >>
    /\ UNCHANGED << deployment, USE_GOOGLE_SHEETS, table, last_run,
                    total_conferences_processed, total_updates_made, now >>
    /\ IF scheduler = "None"
       THEN /\ UNCHANGED << sheets_initialized, spreadsheet >>
            /\ SetRet(t, [op        |-> "/status",
                          scheduler |-> scheduler,
                          raised    |-> FALSE,
                          status    |-> 200,
                          body      |-> [scheduler_status |-> "not_initialized"]])
       ELSE \E opened, loaded \in BOOLEAN :
               /\ ensure_sheets_initialized(opened)
               /\ LET ok == (NeedsSheets => opened) /\ loaded
                  IN  SetRet(t, [op        |-> "/status",
                                 scheduler |-> scheduler,
                                 raised    |-> FALSE,
                                 status    |-> 200,
                                 body      |-> [scheduler_status |-> stats,
                                                incomplete_conferences |->
                                                    IF ok THEN Len(incomplete_now(table))
                                                          ELSE 0]])

\* cloud_main.py:153-176: /trigger-scrape answers 500 without a scheduler,
\* and calls run_single_scraping_job otherwise.
HandleTriggerScrape(t) ==
    /\ MayHandle(t)
    /\ scheduler = "None" \/ now < MaxCycles
    /\ IF scheduler = "None"
       THEN /\ SetRet(t, [op        |-> "/trigger-scrape",
                          scheduler |-> scheduler,
                          raised    |-> FALSE,
                          status    |-> 500,
                          body      |-> [error |-> "Scheduler not initialized"]])
            /\ UNCHANGED entry
       ELSE /\ SetEntry(t, [NoEntry EXCEPT !.op = "run_single_scraping_job",
                                           !.pc = "call",
                                           !.where = "/trigger-scrape",
                                           !.jobs0 = schedule_jobs,
                                           !.start_time = now])
            /\ UNCHANGED ret
    /\ UNCHANGED << schedule_jobs, validation, scheduler, spreadsheet, job >>
    /\ UNCHANGED << deployment, USE_GOOGLE_SHEETS, table, sheets_initialized,
                    last_run, total_conferences_processed, total_updates_made, now >>

\* cloud_main.py:163-169: run_single_scraping_job has returned its dict.
TriggerScrapeReturns(t) ==
    /\ deployment = "http"
    /\ entry[t].op = "run_single_scraping_job"
    /\ entry[t].where = "/trigger-scrape"
    /\ CycleEnded(t)
    /\ SetEntry(t, NoEntry)
    /\ SetRet(t, [op        |-> "/trigger-scrape",
                  scheduler |-> scheduler,
                  raised    |-> FALSE,
                  status    |-> 200,
                  body      |-> [result |-> single_job_result(job[t].outcome = "failed",
                                                              entry[t].start_time)]])
    /\ UNCHANGED << schedule_jobs, validation, scheduler, spreadsheet, job >>
    /\ UNCHANGED << deployment, USE_GOOGLE_SHEETS, table, sheets_initialized,
                    last_run, total_conferences_processed, total_updates_made, now >>

\* cloud_main.py:178-201: GET /preview?limit=...
HandlePreview(t, raw) ==
    /\ MayHandle(t)
    /\ UNCHANGED << schedule_jobs, validation, scheduler, entry, job >>
    /\ UNCHANGED << deployment, USE_GOOGLE_SHEETS, table, last_run,
                    total_conferences_processed, total_updates_made, now >>
    /\ IF scheduler = "None"
       THEN /\ UNCHANGED << sheets_initialized, spreadsheet >>
            /\ SetRet(t, [op        |-> "/preview",
                          scheduler |-> scheduler,
                          raised    |-> FALSE,
                          raw       |-> raw,
                          status    |-> 500,
                          body      |-> [error |-> "Scheduler not initialized"]])
       ELSE \E opened, loaded \in BOOLEAN :
               /\ ensure_sheets_initialized(opened)
               /\ LET ok == (NeedsSheets => opened) /\ loaded
                      limit == args_get_int(raw, PREVIEW_DEFAULT_LIMIT)
                      next_batch == IF ok THEN slice_to(incomplete_now(table), limit)
                                    ELSE << >>
                  IN  SetRet(t, [op        |-> "/preview",
                                 scheduler |-> scheduler,
                                 raised    |-> FALSE,
                                 raw       |-> raw,
                                 loaded    |-> ok,
                                 table     |-> table,
                                 limit     |-> limit,
                                 status    |-> 200,
                                 body      |-> [next_batch |-> next_batch,
                                                count |-> Len(next_batch)]])

\* cloud_main.py:203-229: GET /sheets-url.
HandleSheetsUrl(t) ==
    /\ MayHandle(t)
    /\ UNCHANGED << schedule_jobs, validation, scheduler, entry, job >>
    /\ UNCHANGED << deployment, USE_GOOGLE_SHEETS, table, last_run,
                    total_conferences_processed, total_updates_made, now >>
    /\ IF ~USE_GOOGLE_SHEETS
       THEN /\ UNCHANGED << sheets_initialized, spreadsheet >>
            /\ SetRet(t, [op        |-> "/sheets-url",
                          scheduler |-> scheduler,
                          raised    |-> FALSE,
                          status    |-> 400,
                          body      |-> [error |-> "Google Sheets not enabled"]])
       ELSE IF scheduler = "None"
       THEN /\ UNCHANGED << sheets_initialized, spreadsheet >>
            /\ SetRet(t, [op        |-> "/sheets-url",
                          scheduler |-> scheduler,
                          raised    |-> FALSE,
                          status    |-> 500,
                          body      |-> [error |-> "Scheduler not initialized"]])
       ELSE \E opened \in BOOLEAN :
               /\ ensure_sheets_initialized(opened)
               /\ LET raised == NeedsSheets /\ ~opened
                  IN  SetRet(t, [op        |-> "/sheets-url",
                                 scheduler |-> scheduler,
                                 raised    |-> raised,
                                 status    |-> IF raised THEN 500 ELSE 200,
                                 body      |-> IF raised
                                               THEN [error |-> "Failed to get sheets URL"]
                                               ELSE [google_sheets_url |-> "url"]])

NextHttp ==
    \/ InitializeScraper
    \/ \E t \in Threads :
          \/ HandleStatus(t)
          \/ HandleTriggerScrape(t)
          \/ Cycle(t)
          \/ TriggerScrapeReturns(t)
          \/ \E raw \in RawLimits : HandlePreview(t, raw)
          \/ HandleSheetsUrl(t)

\* cloud_main.py:35: the module is loaded and serves requests; scheduler is
\* None until initialize_scraper has run.
InitHttp ==
    /\ deployment = "http"
    /\ table \in ServiceTables
    /\ USE_GOOGLE_SHEETS \in BOOLEAN
    /\ StoreStates
    /\ sheets_initialized = FALSE
    /\ last_run = 0
    /\ total_conferences_processed = 0
    /\ total_updates_made = 0
    /\ now = 0
    /\ job = [t \in Threads |-> IdleJob]
    /\ schedule_jobs = << >>
    /\ entry = [t \in Threads |-> NoEntry]
    /\ ret = [t \in Threads |-> NoReturn]
    /\ validation = NoValidation
    /\ scheduler = "None"

SpecHttp == InitHttp /\ [][NextHttp]_vars

\* ---------------------------------------------------------- properties

Merged(result) == DOMAIN validated_data(result) # {}

MergedCount(results) == Cardinality({ k \in DOMAIN results : Merged(results[k]) })

\* The numbers of the conferences queried, in the order of the queries.
Queried(log) ==
    LET q == SelectSeq(log, LAMBDA e : e.ev = "query")
    IN  [k \in DOMAIN q |-> q[k].n]

\* A thread is between its table load and its statistics update.
InCycle(t) == job[t].pc \in { "batch", "merge", "stats" }

\* C1: at most one reconciliation cycle is between its table load and its
\* statistics update at any time, when /trigger-scrape arrives while the
\* background thread is inside run_scraping_job.
C1_OneCycleAtATime == Cardinality({ t \in Threads : InCycle(t) }) <= 1

C3_NoWorkStampsLastRun ==
    \A t \in Threads :
        job[t].outcome = "no_work" =>
            /\ last_run = now
            /\ total_conferences_processed = job[t].stats0[2]
            /\ total_updates_made = job[t].stats0[3]

\* C3 amended: a cycle that passes the check and finds no work item leaves
\* last_run, both counters and the store as they were.
C3_NoWorkChangesNothing ==
    \A t \in Threads :
        job[t].outcome = "no_work" =>
            /\ job[t].connected
            /\ job[t].conferences = << >>
            /\ stats = job[t].stats0
            /\ table = job[t].table0

\* C3 witness: a cycle without work after a cycle that completed.
C3_Witness ==
    \E t \in Threads :
        /\ job[t].outcome = "no_work"
        /\ last_run # 0
        /\ last_run < now

\* The analysis of thread t is done and its DataFrame is still as loaded.
Analysed(t) == job[t].pc = "batch" \/ job[t].outcome = "no_work"

AllSpaces(v) == \A n \in 1..Len(v) : v[n] = " "

\* The required fields a row lacks: blank after trimming (or NaN), and, when
\* absentCounts, also the fields that are no column of the table.
Lacking(row, absentCounts) ==
    { f \in Fields :
        IF f \in DOMAIN row.cells
        THEN isna(row.cells[f]) \/ AllSpaces(row.cells[f])
        ELSE absentCounts }

WorkListIsExact(df, items, absentCounts) ==
    /\ \A n \in DOMAIN df :
          (\E k \in DOMAIN items : items[k].index = df[n].index)
              <=> Lacking(df[n], absentCounts) # {}
    /\ \A k \in DOMAIN items :
          \E n \in DOMAIN df :
              /\ df[n].index = items[k].index
              /\ items[k].conference_name = df[n].name
              /\ { items[k].missing_fields[m] : m \in DOMAIN items[k].missing_fields }
                     = Lacking(df[n], absentCounts)
              /\ \A m1, m2 \in DOMAIN items[k].missing_fields :
                    m1 < m2 => FieldPos(items[k].missing_fields[m1])
                                 < FieldPos(items[k].missing_fields[m2])
    /\ \A k1, k2 \in DOMAIN items :
          k1 < k2 => items[k1].index < items[k2].index

\* C4 as claimed: the work list has exactly one item per row that lacks a
\* required field, a required column that the table does not have counting
\* as lacking in every row; the items are in row order and each item's
\* missing_fields are the row's lacking fields in the order of F.
C4_AbsentColumnCountsAsMissing ==
    \A t \in Threads :
        Analysed(t) => WorkListIsExact(job[t].df_2026, job[t].conferences, TRUE)

\* C4 amended: the same with only the required columns that the table has; a
\* required column that the table does not have is never reported missing.
C4_WorkListIsExact ==
    \A t \in Threads :
        Analysed(t) => WorkListIsExact(job[t].df_2026, job[t].conferences, FALSE)

\* C4 witness: the analysis of a table without the Location column, in which
\* a row is left out of the work list and an item lacks two or more fields.
C4_Witness ==
    \E t \in Threads :
        /\ job[t].pc = "batch"
        /\ "Location" \notin table.columns
        /\ Len(job[t].df_2026) > Len(job[t].conferences)
        /\ \E k \in DOMAIN job[t].conferences :
              Len(job[t].conferences[k].missing_fields) >= 2

\* C5: no row with a blank or missing 'Conference Name' is in a work list, on
\* either backend.
C5_BlankNameNeverInWorkList ==
    \A t \in Threads :
        \A k \in DOMAIN job[t].conferences :
            ~is_missing(job[t].conferences[k].conference_name)

\* scrape_batch has returned.
BatchReturned(t) == job[t].pc = "merge"

\* C6: scrape_batch returns exactly one result per conference of the work
\* list, the k-th result being that of the k-th conference, whatever the
\* outcomes of the queries and whatever the batch_size.
C6_OneResultPerConference ==
    \A t \in Threads :
        BatchReturned(t) =>
            /\ Len(job[t].results) = Len(job[t].conferences)
            /\ \A k \in DOMAIN job[t].results :
                  job[t].results[k].conference_info = job[t].conferences[k]

\* C6 witness: scrape_batch returned from a work list of several batches,
\* with a found and a not-found result.
C6_Witness ==
    \E t \in Threads :
        /\ BatchReturned(t)
        /\ Len(job[t].conferences) > job[t].batch_size
        /\ \E k \in DOMAIN job[t].results : Truthy(job[t].results[k].scraped_data)
        /\ \E k \in DOMAIN job[t].results : ~Truthy(job[t].results[k].scraped_data)

\* C7: the conferences are queried one by one in work-list order, each once:
\* the k-th query is for the k-th conference, every query has its result
\* recorded, and when scrape_batch returns every conference has been queried,
\* also those that follow a failing query.
C7_EachQueriedOnceInOrder ==
    \A t \in Threads :
        LET q == Queried(job[t].log)
        IN  /\ \A k \in DOMAIN q : q[k] = k
            /\ Len(q) = Len(job[t].results)
            /\ Len(q) <= Len(job[t].conferences)
            /\ BatchReturned(t) => Len(q) = Len(job[t].conferences)

\* C7 witness: scrape_batch returned from several batches, the first query
\* having failed and the last conference having been queried all the same.
C7_Witness ==
    \E t \in Threads :
        /\ BatchReturned(t)
        /\ Len(job[t].conferences) > job[t].batch_size
        /\ job[t].batch_size > 1
        /\ ~Truthy(job[t].results[1].scraped_data)
        /\ Queried(job[t].log)[Len(job[t].conferences)] = Len(job[t].conferences)

\* C8 as claimed: a completed cycle writes to the store exactly once when
\* updates_made > 0 and not at all when updates_made = 0, on both backends.
C8_OneWritePerCycle ==
    \A t \in Threads :
        job[t].outcome = "done" =>
            job[t].writes = IF job[t].updates_made > 0 THEN 1 ELSE 0

\* C8 amended: a completed cycle on the CSV backend saves the file exactly
\* once when updates_made > 0 and not at all when updates_made = 0; on the
\* Sheets backend it writes one sheet row per merged result, updates_made
\* writes in all; a cycle that wrote nothing leaves the store as it was.
C8_WritesPerBackend ==
    \A t \in Threads :
        job[t].outcome = "done" =>
            /\ job[t].writes =
                  IF USE_GOOGLE_SHEETS
                  THEN job[t].updates_made
                  ELSE IF job[t].updates_made > 0 THEN 1 ELSE 0
            /\ job[t].writes = 0 => table = job[t].table0

\* C8 witness: a completed CSV cycle that merged two rows and saved once.
C8_Witness ==
    \E t \in Threads :
        /\ job[t].outcome = "done"
        /\ ~USE_GOOGLE_SHEETS
        /\ job[t].updates_made = 2
        /\ job[t].writes = 1
        /\ table # job[t].table0

\* C9: after a completed cycle, the stored row of every result with a
\* non-empty validated map holds the validated value in each validated field,
\* and updates_made is the number of those results.
C9_MergedRowsHoldValidatedValues ==
    \A t \in Threads :
        job[t].outcome = "done" =>
            /\ job[t].updates_made = MergedCount(job[t].results)
            /\ \A k \in DOMAIN job[t].results :
                  LET res == job[t].results[k]
                      n == res.conference_info.index + 1
                  IN  Merged(res) =>
                        /\ n \in DOMAIN table.rows
                        /\ \A f \in DOMAIN validated_data(res) :
                              /\ f \in DOMAIN table.rows[n].cells
                              /\ table.rows[n].cells[f] = validated_data(res)[f]

\* C10: after a completed cycle, the stored row of every conference whose
\* query came back not-found (or failed) is as it was when the cycle began,
\* total_conferences_processed has grown by one for every conference of the
\* work list, those included, and total_updates_made has grown only by the
\* number of results that were merged.
C10_NotFoundLeavesRowAndCounts ==
    \A t \in Threads :
        job[t].outcome = "done" =>
            /\ Len(job[t].results) = Len(job[t].conferences)
            /\ total_conferences_processed = job[t].stats0[2] + Len(job[t].results)
            /\ total_updates_made = job[t].stats0[3] + MergedCount(job[t].results)
            /\ job[t].updates_made = MergedCount(job[t].results)
            /\ \A k \in DOMAIN job[t].results :
                  LET res == job[t].results[k]
                      n == res.conference_info.index + 1
                  IN  ~Truthy(res.scraped_data) =>
                        /\ ~Merged(res)
                        /\ n \in DOMAIN table.rows
                        /\ table.rows[n] = job[t].table0.rows[n]

\* C10 witness: a completed cycle with a not-found result next to a merged
\* one, which changed the store.
C10_Witness ==
    \E t \in Threads :
        /\ job[t].outcome = "done"
        /\ \E k \in DOMAIN job[t].results : ~Truthy(job[t].results[k].scraped_data)
        /\ \E k \in DOMAIN job[t].results : Merged(job[t].results[k])
        /\ table # job[t].table0

\* C11: a cycle that raises after its connectivity check has passed (in the
\* load, the analysis, the batch, the merge or the save) ends in failure with
\* last_run and both counters as they were when the cycle began; the
\* exception leaves run_scraping_job, which is then no longer running.
C11_FailureLeavesStatistics ==
    \A t \in Threads :
        job[t].outcome = "failed" =>
            /\ job[t].pc = "idle"
            /\ job[t].connected => stats = job[t].stats0

\* C11 witness: a cycle that had merged an update failed after its check, in
\* a process whose statistics were already non-zero.
C11_Witness ==
    \E t \in Threads :
        /\ job[t].outcome = "failed"
        /\ job[t].connected
        /\ job[t].updates_made > 0
        /\ last_run # 0
        /\ total_conferences_processed > 0

\* run_scheduler is inside its while loop.
InLoop(t) ==
    /\ entry[t].op = "run_scheduler"
    /\ \/ entry[t].pc \in {"poll", "sleep", "recover"}
       \/ entry[t].where = "tick" /\ entry[t].pc \in {"call", "running"}

Polling(t) == entry[t].op = "run_scheduler" /\ entry[t].pc = "poll"

Interrupted(t) == entry[t].op = "run_scheduler" /\ entry[t].pc = "interrupted"

\* C12: a failure inside a scheduled tick does not end the scheduler loop:
\* when the job run by run_pending raises, the loop goes to its 5-minute
\* recovery sleep, from which it can only go on to poll again (or be
\* interrupted); and from every state of the loop, the loop polls again and
\* again unless it is interrupted from outside.
C12_PollAlwaysReached ==
    /\ [][\A t \in Threads :
             /\ (entry[t].where = "tick" /\ CycleEnded(t)
                   /\ job[t].outcome = "failed" /\ entry'[t] # entry[t])
                => entry'[t].pc = "recover"
             /\ (entry[t].pc = "recover" /\ entry'[t] # entry[t])
                => entry'[t].pc \in {"poll", "interrupted"}]_vars
    /\ \A t \in Threads :
          [](InLoop(t) => ([]<>Polling(t) \/ <>Interrupted(t)))

\* C12 witness: the loop is in its recovery sleep after a tick whose cycle
\* raised.
C12_Witness ==
    \E t \in Threads :
        /\ InLoop(t)
        /\ entry[t].pc = "recover"
        /\ job[t].outcome = "failed"
        /\ entry[t].cycles = 2

\* C13: no exception of a cycle started from run_scheduler, the immediate
\* first run included, ends run_scheduler: once it is called, it is never
\* left by an exception, and when its first cycle is over (failed or not) it
\* is in its polling loop.
C13_InitialFailureKeepsLoop ==
    \A t \in Threads :
        entry[t].op = "run_scheduler" =>
            /\ entry[t].pc # "crashed"
            /\ (entry[t].where = "initial" /\ entry[t].pc \notin {"call", "running"})
                   => entry[t].pc \in {"poll", "interrupted"}

\* run_single_scraping_job has returned on thread t and the cycle it ran is
\* still the last one of the thread.
SingleReturned(t) ==
    ret[t].op = "run_single_scraping_job" /\ entry[t].pc = "idle"

\* C14: run_single_scraping_job returns success = false whenever the cycle it
\* ran did not complete (it raised, it was aborted by a failed connectivity
\* check, or it returned early), and success = true only when the cycle
\* reached its statistics update.
C14_SuccessOnlyWhenDone ==
    \A t \in Threads :
        SingleReturned(t) => (ret[t].value.success <=> job[t].outcome = "done")

\* C15: every call of run_single_scraping_job runs exactly one cycle, also
\* when that cycle fails, and the registered recurring jobs are the same
\* during and after the call as before it.
C15_OneCycleScheduleUntouched ==
    \A t \in Threads :
        /\ entry[t].op = "run_single_scraping_job" =>
              /\ entry[t].cycles <= 1
              /\ schedule_jobs = entry[t].jobs0
        /\ ret[t].op = "run_single_scraping_job" =>
              /\ ret[t].cycles = 1
              /\ ret[t].jobs = ret[t].jobs0

\* C15 witness: a call whose cycle raised has returned, with two recurring
\* jobs registered.
C15_Witness ==
    \E t \in Threads :
        /\ SingleReturned(t)
        /\ job[t].outcome = "failed"
        /\ ~ret[t].value.success
        /\ Len(ret[t].jobs) = 2

\* C16: the dict returned by run_single_scraping_job has the duration of the
\* cycle, when the cycle succeeded and when it failed.
C16_ResultHasDuration ==
    \A t \in Threads :
        ret[t].op = "run_single_scraping_job" =>
            "duration_seconds" \in DOMAIN ret[t].value

\* The first min(limit, n) of the n work items of a table, in table order.
FirstItems(tbl, limit) ==
    LET items == incomplete_now(tbl)
    IN  [k \in 1..(IF limit < Len(items) THEN limit ELSE Len(items)) |-> items[k]]

\* C17: preview_next_scraping_batch(limit) with limit >= 0 returns the first
\* min(limit, n) work items of the table it could load, in table order,
\* queries the oracle not once, neither writes nor creates the store, and
\* leaves last_run and both counters as they were.
C17_PreviewIsReadOnly ==
    \A t \in Threads :
        (ret[t].op = "preview_next_scraping_batch" /\ ret[t].limit >= 0) =>
            /\ ret[t].loaded =>
                  ret[t].value = FirstItems(ret[t].before.table, ret[t].limit)
            /\ ret[t].queries = << >>
            /\ ret[t].after.table = ret[t].before.table
            /\ ret[t].after.spreadsheet = ret[t].before.spreadsheet
            /\ ret[t].after.stats = ret[t].before.stats

ReadOnlyOps ==
    { "get_status", "get_incomplete_conferences_count",
      "preview_next_scraping_batch", "set_custom_schedule", "stop_scheduler" }

\* C18: the statistics are None/0/0 when the process starts and change only
\* in the step in which a cycle updates its statistics; get_status,
\* get_incomplete_conferences_count, preview_next_scraping_batch,
\* set_custom_schedule and stop_scheduler change neither the statistics nor
\* the store.
C18_OnlyCyclesChangeStatistics ==
    /\ stats = << 0, 0, 0 >>
    /\ [][stats' # stats =>
             \E t \in Threads : job[t].pc = "stats" /\ job'[t].outcome = "done"]_vars
    /\ [](\A t \in Threads :
             ret[t].op \in ReadOnlyOps =>
                 /\ ret[t].after.stats = ret[t].before.stats
                 /\ ret[t].after.table = ret[t].before.table
                 /\ ret[t].after.spreadsheet = ret[t].before.spreadsheet)

\* C19: validate_scraped_data adds no field: the keys of its output are keys
\* of its input and are among the six required fields, so the row a
\* validated map is merged into keeps exactly its columns and changes in
\* validated fields only.
C19_ValidateAddsNoField ==
    /\ \A k \in DOMAIN validation.out :
          /\ DOMAIN validation.out[k] \subseteq DOMAIN validation.data
          /\ DOMAIN validation.out[k] \subseteq Fields
    /\ validation.row # EmptyDict =>
          /\ DOMAIN validation.row = DOMAIN IncompleteRow.cells
          /\ \A f \in DOMAIN validation.row :
                validation.row[f] # IncompleteRow.cells[f]
                    => f \in DOMAIN validation.out[1]

\* C19 witness: a map with a key that is no required field and with a valid
\* field has been validated and merged into a row.
C19_Witness ==
    /\ "Venue" \in DOMAIN validation.data
    /\ text_ok(validation.data["Venue"])
    /\ validation.out # << >>
    /\ DOMAIN validation.out[1] # {}
    /\ validation.row # EmptyDict
    /\ validation.row # IncompleteRow.cells

\* C20: validate_scraped_data is idempotent: applied to its own output it
\* returns that output, no field dropped and no value changed.
C20_ValidateIdempotent ==
    \A k \in DOMAIN validation.out :
        k > 1 => validation.out[k] = validation.out[1]

\* C20 witness: the validator has been applied to its own output, the first
\* application having dropped a field and stripped a value.
C20_Witness ==
    /\ Len(validation.out) >= 2
    /\ DOMAIN validation.out[1] # {}
    /\ DOMAIN validation.out[1] # DOMAIN validation.data
    /\ \E f \in DOMAIN validation.out[1] :
          validation.out[1][f] # validation.data[f]

\* The text of a value without the spaces at its two ends.
Trimmed(v) ==
    LET s == str(v)
        inner == { n \in 1..Len(s) : s[n] # " " }
    IN  IF inner = {}
        THEN << >>
        ELSE SubSeq(s, CHOOSE a \in inner : \A n \in inner : a <= n,
                       CHOOSE b \in inner : \A n \in inner : n <= b)

\* C21: validate_scraped_data keeps the value of Start Date or End Date if
\* and only if the trimmed value contains '/' and has at most 5 characters;
\* every date it outputs is that trimmed value and meets both conditions.
C21_DateKeptIffSlashAndShort ==
    \A k \in DOMAIN validation.out :
        LET arg == IF k = 1 THEN validation.data ELSE validation.out[k - 1]
            out == validation.out[k]
        IN  \A f \in { "Start Date", "End Date" } \cap DOMAIN arg :
                /\ f \in DOMAIN out <=>
                      /\ \E n \in DOMAIN Trimmed(arg[f]) : Trimmed(arg[f])[n] = "/"
                      /\ Len(Trimmed(arg[f])) <= 5
                /\ f \in DOMAIN out =>
                      /\ out[f] = Trimmed(arg[f])
                      /\ \E n \in DOMAIN out[f] : out[f][n] = "/"
                      /\ Len(out[f]) <= 5

\* C21 witness: of two dates, the one that is short enough once trimmed was
\* kept and the one that is too long was dropped.
C21_Witness ==
    /\ validation.out # << >>
    /\ DOMAIN validation.data = { "Start Date", "End Date" }
    /\ Len(validation.data["Start Date"]) > 5
    /\ "Start Date" \in DOMAIN validation.out[1]
    /\ Len(validation.data["End Date"]) > 5
    /\ "End Date" \notin DOMAIN validation.out[1]

\* The number of rows with a name before position p of a DataFrame.
NamedBefore(df, p) ==
    Cardinality({ m \in 1..(p - 1) : ~is_missing(df[m].name) })

\* C22: the index of a work item is the 0-based position of its record among
\* the rows with a non-blank name of the table as loaded, on both backends,
\* also when rows with a blank name come before the record.
C22_IndexIsOrdinalAmongNamed ==
    \A t \in Threads :
        Analysed(t) =>
            \A p \in DOMAIN job[t].df_2026 :
                LET row == job[t].df_2026[p]
                IN  (/\ ~is_missing(row.name)
                     /\ \E k \in DOMAIN job[t].conferences :
                           job[t].conferences[k].index = row.index)
                        => row.index = NamedBefore(job[t].df_2026, p)

SchedulerEndpoints == { "/status", "/trigger-scrape", "/preview", "/sheets-url" }

\* C23: every endpoint that needs the scheduler (/status, /trigger-scrape,
\* /preview, /sheets-url) answers 500 when the scheduler is not initialised,
\* and 200 when it is and the handler succeeds.
C23_NoSchedulerAnswers500 ==
    \A t \in Threads :
        ret[t].op \in SchedulerEndpoints =>
            /\ ret[t].scheduler = "None" => ret[t].status = 500
            /\ (ret[t].scheduler # "None" /\ ~ret[t].raised) => ret[t].status = 200

NonIntegerTexts == { << >>, << "a", "b", "c" >>, << "1", ".", "5" >> }

\* C27: on /preview a limit that is missing or is not an integer produces no
\* error: with a scheduler the request is answered 200 with limit = 10.
C27_BadLimitServedWithTen ==
    \A t \in Threads :
        (/\ ret[t].op = "/preview"
         /\ ret[t].scheduler # "None"
         /\ ~ret[t].raw.sent \/ ret[t].raw.text \in NonIntegerTexts)
            => /\ ret[t].status = 200
               /\ ret[t].limit = PREVIEW_DEFAULT_LIMIT
               /\ ret[t].loaded =>
                     ret[t].body.next_batch
                         = slice_to(incomplete_now(ret[t].table), PREVIEW_DEFAULT_LIMIT)

C27_Witness ==
    /\ ret["request"].op = "/preview"
    /\ ret["request"].raw = Sent(<< "a", "b", "c" >>)
    /\ ret["request"].status = 200
    /\ ret["request"].limit = PREVIEW_DEFAULT_LIMIT
    /\ ret["request"].body.count > 0

CustomScheduleSet(t) == ret[t].op = "set_custom_schedule"

\* The daily jobs of a list of times, one per entry, in the order of the list.
DailyJobs(times) == [k \in DOMAIN times |-> DailyAt(times[k])]

InitialRun(t) == entry[t].op = "run_scheduler" /\ entry[t].where = "initial"

\* C25: run_scheduler registers the recurring job, then runs one cycle at
\* once, and only then polls for pending jobs: the job is registered by the
\* step that enters run_scheduler, before the first cycle starts; the loop
\* is entered only from the end of that first cycle; and the polling loop is
\* left only by an interrupt from outside.
C25_RegisterRunThenPoll ==
    /\ [][\A t \in Threads :
             /\ (entry[t].op = "none" /\ entry'[t].op = "run_scheduler")
                => /\ schedule_jobs' = Append(schedule_jobs, DefaultJob)
                   /\ entry'[t].pc = "call"
                   /\ entry'[t].where = "initial"
                   /\ entry'[t].cycles = 0
             /\ (~InLoop(t) /\ InLoop(t)')
                => /\ InitialRun(t)
                   /\ CycleEnded(t)
                   /\ entry[t].cycles = 1
                   /\ Polling(t)'
             /\ (InLoop(t) /\ ~InLoop(t)') => Interrupted(t)']_vars
    /\ \A t \in Threads :
          [](/\ InitialRun(t) /\ entry[t].pc \in {"call", "running"}
                => schedule_jobs = Append(entry[t].jobs0, DefaultJob)
             /\ InLoop(t)
                => /\ entry[t].cycles >= 1
                   /\ schedule_jobs = Append(entry[t].jobs0, DefaultJob))

C25_Witness ==
    /\ Polling("background")
    /\ InitialRun("background")
    /\ entry["background"].cycles = 1
    /\ schedule_jobs = << DefaultJob >>
    /\ job["background"].outcome # "failed"

\* C28: a cycle only fills fields that were missing: every required field
\* of a record that is not blank when the cycle loads the store holds the
\* same value when the cycle is over, also when the oracle's answer has
\* values for fields that are not among the record's missing_fields.
C28_FilledFieldsKept ==
    \A t \in Threads :
        job[t].outcome = "done" =>
            \A n \in DOMAIN job[t].table0.rows :
                \A f \in job[t].table0.columns :
                    ~is_missing(read_cell(job[t].table0.rows[n].cells[f]))
                        => /\ n \in DOMAIN table.rows
                           /\ table.rows[n].cells[f] = job[t].table0.rows[n].cells[f]

\* The fields of a result that the oracle answered and the validator rejected.
RejectedFields(result) ==
    IF Truthy(result.scraped_data)
    THEN DOMAIN result.scraped_data.data \ DOMAIN validated_data(result)
    ELSE {}

\* The work list the next cycle computes when nothing else changes the store.
NextWorkList == get_incomplete_conferences(load_2026_data(table))

\* C26: a field whose returned value the validator rejects stays blank in
\* the store after the cycle, and the record comes again, with that field
\* among its missing_fields, in the work list of the next cycle.
C26_RejectedFieldAsksAgain ==
    \A t \in Threads :
        job[t].outcome = "done" =>
            \A k \in DOMAIN job[t].results :
                LET item == job[t].results[k].conference_info
                    n == item.index + 1
                IN  \A f \in RejectedFields(job[t].results[k]) :
                        Contains(item.missing_fields, f) =>
                            /\ n \in DOMAIN table.rows
                            /\ table.rows[n].name = to_csv_cell(item.conference_name)
                            /\ is_missing(read_cell(table.rows[n].cells[f]))
                            /\ \E c \in DOMAIN NextWorkList :
                                  /\ NextWorkList[c].index = item.index
                                  /\ NextWorkList[c].conference_name = item.conference_name
                                  /\ Contains(NextWorkList[c].missing_fields, f)

\* The results of the running cycle that have been merged and written.
WrittenResults(t) ==
    { k \in DOMAIN job[t].results : k < job[t].r /\ Merged(job[t].results[k]) }

\* C29: on Sheets the row written back for a work item is the item's own
\* record and lands on that record's sheet row: where the record stood, a
\* row of the same conference name stands after the write, also when rows
\* with a blank name were filtered out at load.
C29_WriteLandsOnOwnRow ==
    \A t \in Threads :
        (USE_GOOGLE_SHEETS /\ job[t].pc \in {"merge", "stats"}) =>
            \A k \in WrittenResults(t) :
                LET item == job[t].results[k].conference_info
                    n == item.index + 1
                IN  /\ job[t].table0.rows[n].name = item.conference_name
                    /\ n \in DOMAIN table.rows
                    /\ table.rows[n].name = item.conference_name

BothDone == \A t \in Threads : job[t].outcome = "done"

\* Two cycles overlap when neither saw the statistics the other one left.
Overlapped == \A t, u \in Threads : job[t].stats0 = job[u].stats0

RECURSIVE SumOver(_, _)
SumOver(S, amount) ==
    IF S = {} THEN 0
    ELSE LET t == CHOOSE x \in S : TRUE
         IN  amount[t] + SumOver(S \ {t}, amount)

\* C30: when a manual and a scheduled cycle overlap no effect of either is
\* lost: every field that either cycle merged is in the store with the merged
\* value, and each counter has grown by the sum of what the two added.
C30_OverlapLosesNothing ==
    (BothDone /\ Overlapped) =>
        /\ \A t \in Threads :
              \A k \in DOMAIN job[t].results :
                  LET res == job[t].results[k]
                      n == res.conference_info.index + 1
                  IN  \A f \in DOMAIN validated_data(res) \cap table.columns :
                          table.rows[n].cells[f] = validated_data(res)[f]
        /\ total_updates_made
               = SumOver(Threads, [t \in Threads |-> job[t].updates_made])
        /\ total_conferences_processed
               = SumOver(Threads, [t \in Threads |-> Len(job[t].conferences)])

\* C31: a cycle that ends in failure leaves the store as it was when the
\* cycle started, on both backends: no row update of a cycle is in the
\* store unless the cycle completes and updates the statistics.
\* A cycle past its save has only its statistics left to update.
C31_FailedCycleLeavesStore ==
    \A t \in Threads :
        /\ job[t].outcome = "failed" => table = job[t].table0
        /\ (job[t].outcome = "running" /\ job[t].pc # "stats")
              => table = job[t].table0

\* last_run is None (no cycle has stamped it).
LastRunNull == last_run = 0

\* C32: in every state of one scheduler, total_updates_made is at most
\* total_conferences_processed, both counters are non-negative and never
\* decrease, and last_run is null exactly when both counters are zero and no
\* cycle has completed.
C32_CountersConsistent ==
    /\ [](/\ total_updates_made <= total_conferences_processed
          /\ total_updates_made >= 0
          /\ total_conferences_processed >= 0
          /\ LastRunNull <=> (/\ total_conferences_processed = 0
                              /\ total_updates_made = 0
                              /\ \A t \in Threads : job[t].outcome # "done"))
    /\ [][/\ total_updates_made' >= total_updates_made
          /\ total_conferences_processed' >= total_conferences_processed]_vars

Searched(t) == ret[t].op = "search_conference_info"

\* The fields of a JSON object whose value is neither null nor blank once
\* trimmed.
KeptKeys(obj) ==
    { k \in DOMAIN obj : ~(obj[k] = None) /\ ~(strip(obj[k]) = << >>) }

\* C34: search_conference_info answers not-found to a response that is the
\* word false in any letter case; of a JSON object it drops every field
\* whose value is null or blank after trimming and returns the rest, or
\* not-found when nothing is left; it never returns an empty mapping.
C34_FalseOrFilteredObject ==
    \A t \in Threads :
        Searched(t) =>
            LET resp == ret[t].resp
                value == ret[t].value
                bare == resp.kind = "text" /\ resp.fence = "none"
            IN  /\ (bare /\ resp.payload \in FalseLiterals) => value = ScrapedFalse
                /\ (bare /\ resp.payload = "object" /\ KeptKeys(resp.obj) = {})
                      => value = ScrapedFalse
                /\ (bare /\ resp.payload = "object" /\ KeptKeys(resp.obj) # {})
                      => /\ value.isdict
                         /\ DOMAIN value.data = KeptKeys(resp.obj)
                         /\ \A k \in KeptKeys(resp.obj) : value.data[k] = resp.obj[k]
                /\ value.isdict => DOMAIN value.data # {}

C34_Witness ==
    /\ Searched("request")
    /\ ret["request"].resp.fence = "none"
    /\ ret["request"].resp.payload = "object"
    /\ DOMAIN ret["request"].resp.obj = { "Location", "Status" }
    /\ ret["request"].resp.obj["Location"] = << " " >>
    /\ DOMAIN ret["request"].value.data = { "Status" }

\* C35: code-fence markup around the response is stripped before the
\* response is interpreted: a payload wrapped in a fence, with or without
\* the json language tag, gives the same outcome as the payload alone, for a
\* JSON object and for the not-found literal.
C35_FenceMakesNoDifference ==
    \A t \in Threads :
        (/\ Searched(t)
         /\ ret[t].resp.kind = "text"
         /\ ret[t].resp.fence \in { "json", "plain" }
         /\ ret[t].resp.payload \in FalseLiterals \cup { "object" })
            => ret[t].value = search_conference_info([ret[t].resp EXCEPT !.fence = "none"])

\* The answers that are a failure of one item: the call raised, the text is
\* not JSON, or it is a JSON value that is not an object.
ItemFailure(resp) ==
    \/ resp.kind = "exception"
    \/ resp.kind = "text" /\ resp.payload \in { "malformed", "array" }

\* C36: no failure of one item leaves the batch: for every such answer
\* search_conference_info returns its not-found value, and scrape_batch
\* goes on, records one result per query and returns with a result for
\* every item, without the cycle failing.
C36_ItemFailureAbsorbed ==
    /\ \A resp \in Answers : ItemFailure(resp) => search_conference_info(resp) = ScrapedFalse
    /\ \A t \in Threads :
          /\ job[t].outcome # "failed"
          /\ \A k \in DOMAIN job[t].results :
                job[t].results[k].scraped_data \in
                    { search_conference_info(resp) : resp \in Answers }
          /\ Len(job[t].results) = Len(Queried(job[t].log))
          /\ BatchReturned(t) => Len(job[t].results) = Len(job[t].conferences)

C36_Witness ==
    \E t \in Threads :
        /\ BatchReturned(t)
        /\ Len(job[t].conferences) = MaxItems
        /\ job[t].results[1].scraped_data = ScrapedFalse
        /\ job[t].results[2].scraped_data = ScrapedFalse
        /\ Truthy(job[t].results[MaxItems].scraped_data)

\* The positions of the log where the delay of the given length is taken.
Delays(log, secs) == { p \in DOMAIN log : log[p] = Sleep(secs) }

\* ceil(n / b) for b >= 1
CeilDiv(n, b) == (n + b - 1) \div b

\* C33: in scrape_batch over n items with batch size b >= 1 the delay
\* between items follows the query of every item, and the longer delay
\* between batches is taken exactly ceil(n/b) - 1 times (n >= 1), each time
\* after the last item of a batch that another batch follows and never
\* after the final batch.
C33_PacingDelays ==
    \A t \in Threads :
        LET log == job[t].log
            n == Len(job[t].conferences)
            b == job[t].batch_size
        IN  /\ \A p \in DOMAIN log :
                  log[p].ev = "query"
                      => p + 1 \in DOMAIN log /\ log[p + 1] = Sleep(2)
            /\ \A p \in Delays(log, 10) :
                  /\ p > 2
                  /\ log[p - 1] = Sleep(2)
                  /\ log[p - 2].ev = "query"
                  /\ log[p - 2].n % b = 0
                  /\ log[p - 2].n < n
            /\ (BatchReturned(t) /\ n >= 1) =>
                  /\ Cardinality(Delays(log, 10)) = CeilDiv(n, b) - 1
                  /\ Cardinality(Delays(log, 2)) = n
                  /\ log[Len(log)] = Sleep(2)

C33_Witness ==
    \E t \in Threads :
        /\ BatchReturned(t)
        /\ Len(job[t].conferences) > job[t].batch_size
        /\ Len(job[t].conferences) % job[t].batch_size # 0
        /\ Cardinality(Delays(job[t].log, 10)) >= 1
        /\ Cardinality(Delays(job[t].log, 2)) = Len(job[t].conferences)

PassedCheck(t) == job[t].outcome = "running" /\ job[t].connected

\* The number of times the body of the loop over the batches has run.
BatchIterations(t) == job[t].i \div job[t].batch_size

\* C37 as stated: scrape_batch ends after exactly ceil(n/batch_size) batch
\* iterations, and every cycle that has passed the connectivity check ends
\* in the statistics update or in a failure that leaves the cycle.
C37_CycleEndsInStatsOrFailure ==
    /\ \A t \in Threads :
          [](BatchReturned(t) =>
                BatchIterations(t) = CeilDiv(Len(job[t].conferences), job[t].batch_size))
    /\ [][\A t \in Threads :
             (PassedCheck(t) /\ job'[t].outcome # "running")
                => job'[t].outcome \in { "done", "failed" }]_vars
    /\ \A t \in Threads :
          PassedCheck(t) ~> job[t].outcome \in { "done", "failed" }

\* C37 amended: scrape_batch ends after exactly ceil(n/batch_size) batch
\* iterations, and every cycle that has passed the connectivity check ends:
\* in the statistics update, in a failure that leaves the cycle, or in the
\* early return of a store without rows or without work.
C37_CycleEnds ==
    /\ \A t \in Threads :
          [](BatchReturned(t) =>
                BatchIterations(t) = CeilDiv(Len(job[t].conferences), job[t].batch_size))
    /\ \A t \in Threads : (job[t].pc = "batch") ~> BatchReturned(t)
    /\ [][\A t \in Threads :
             (PassedCheck(t) /\ job'[t].outcome # "running")
                => job'[t].outcome \in { "done", "failed", "no_data", "no_work" }]_vars
    /\ \A t \in Threads :
          PassedCheck(t) ~> job[t].outcome \in { "done", "failed", "no_data", "no_work" }

C37_Witness ==
    \E t \in Threads :
        /\ job[t].outcome = "done"
        /\ job[t].connected
        /\ Len(job[t].conferences) > job[t].batch_size
        /\ BatchIterations(t) = 2

====
